---- MODULE Spec2Model ----
(***************************************************************************)
(* Model of the clipboard-screenshot upload pipeline of pulse:             *)
(* the global-shortcut handler (capture, encode, upload with retry,        *)
(* notify) of src-tauri/src/lib.rs and modules/upload.rs.                  *)
(***************************************************************************)
EXTENDS Integers, Sequences, FiniteSets, TLC

\* ------------------------------------------------------------------ bounds

\* The model records at most this many HTTP requests of one call chain (the
\* record saturates; the chain itself goes on).
MaxRequests == 4
\* The model stops telling retry_count values apart here: the code only reads
\* retry_count < 2, and the u32 would take 2^32 retries to wrap.
RetryCountCap == 4
\* Longest per-run event trace recorded; longer traces are cut (saturate).
MaxTrace == 18

\* The workers: one per hotkey press. Solo is the run explored alone by Spec.
Runs == {1, 2}
Solo == {1}

\* ------------------------------------------------------------------ values

None == <<>>
Some(x) == <<x>>

Min(a, b) == IF a < b THEN a ELSE b

\* Contents the OS clipboard can hold: no image, or raw RGBA data with its
\* dimensions (arboard::ImageData: bytes, width, height).
NoImage == [has |-> FALSE, width |-> 0, height |-> 0, len |-> 0]
Images ==
    { [has |-> TRUE, width |-> 1, height |-> 1, len |-> 4],
      [has |-> TRUE, width |-> 0, height |-> 0, len |-> 0],
      [has |-> TRUE, width |-> 2, height |-> 1, len |-> 4] }
ClipboardContents == {NoImage} \cup Images

\* Outcomes of reqwest's send(): a transport error (timeout, connect, any
\* other kind) or an HTTP response with a status and a body.
Statuses == {200, 204, 403, 404, 429, 500, 503}
JsonBodies == {"url_and_name", "url_only", "url_bad_name", "url_not_string", "no_url", "not_json"}
TransportErrors == {"timeout", "connect", "other"}
Responses ==
    { [transport |-> e, status |-> 0, body |-> "none"] : e \in TransportErrors }
    \cup { [transport |-> "ok", status |-> 200, body |-> b] : b \in JsonBodies }
    \cup { [transport |-> "ok", status |-> 204, body |-> "not_json"] }
    \cup { [transport |-> "ok", status |-> s, body |-> "text"] :
               s \in Statuses \ {200, 204} }

\* An error string, kept as its format and its arguments.
Msg(kind, status, detail) == [kind |-> kind, status |-> status, detail |-> detail]

\* struct UploadResult
UploadResult(success, url, filename, size, error) ==
    [success |-> success, url |-> url, filename |-> filename, size |-> size,
     duration |-> None, error |-> error]

\* Mutant: the failure outcome loses its error message.
FailureResultNoError(msg) == UploadResult(FALSE, None, None, None, None)

\* The failure outcome the handler builds around an error string.
FailureResult(msg) == UploadResult(FALSE, None, None, None, Some(msg))

\* Result<T, String>
Ok(v) == [ok |-> TRUE, value |-> v]
Err(m) == [ok |-> FALSE, value |-> m]
Pending == [ok |-> FALSE, value |-> Msg("pending", 0, "")]

\* ------------------------------------------------------------------ pure functions

PNG_MAGIC == <<137, 80, 78, 71, 13, 10, 26, 10>>

\* Byte length of the PNG stream written for a width x height RGBA image:
\* signature, IHDR, one IDAT holding the filtered scanlines, IEND.
PngSize(width, height) == 8 + 25 + (12 + 11 + height * (1 + 4 * width)) + 12

\* ImageBuffer::from_raw: None when the buffer is too small for the dimensions.
from_raw(width, height, len) == width * height * 4 <= len

\* rgba_to_png(rgba_data, width, height) -> Result<Vec<u8>, String>
rgba_to_png(img) ==
    IF ~from_raw(img.width, img.height, img.len)
    THEN Err(Msg("Failed to create image buffer", 0, ""))
    ELSE IF img.width = 0 \/ img.height = 0
    THEN Err(Msg("Failed to encode PNG", 0, "zero dimension"))
    ELSE Ok([magic |-> PNG_MAGIC, width |-> img.width, height |-> img.height,
             pixels |-> img.width * img.height * 4,
             size |-> PngSize(img.width, img.height)])

\* format!("{:.1}", n / d) for d a power of two: n/d to one decimal, ties to even.
OneDecimal(n, d) ==
    LET q == (n * 10) \div d
        rem == (n * 10) % d
    IN  IF 2 * rem > d \/ (2 * rem = d /\ q % 2 = 1) THEN q + 1 ELSE q

\* Mutant: the unit thresholds are inclusive.
format_size_inclusive(bytes) ==
    IF bytes <= 1024
    THEN [n |-> bytes, decimals |-> 0, unit |-> "B"]
    ELSE IF bytes <= 1024 * 1024
    THEN [n |-> OneDecimal(bytes, 1024), decimals |-> 1, unit |-> "KB"]
    ELSE [n |-> OneDecimal(bytes, 1024 * 1024), decimals |-> 1, unit |-> "MB"]

\* format_size(bytes) -> String, kept as number (in tenths for KB and MB) and unit.
format_size(bytes) ==
    IF bytes < 1024
    THEN [n |-> bytes, decimals |-> 0, unit |-> "B"]
    ELSE IF bytes < 1024 * 1024
    THEN [n |-> OneDecimal(bytes, 1024), decimals |-> 1, unit |-> "KB"]
    ELSE [n |-> OneDecimal(bytes, 1024 * 1024), decimals |-> 1, unit |-> "MB"]

\* base64 STANDARD.encode and the "data:image/png;base64," prefix put before it.
DataUrl(png) == [data_url |-> TRUE, valid |-> TRUE, bytes |-> png]

\* The data-URL prefix is split off, then base64 STANDARD.decode.
Base64Decode(arg) ==
    IF arg.valid THEN Ok(arg.bytes) ELSE Err(Msg("Failed to decode base64", 0, ""))

is_success(status) == status >= 200 /\ status <= 299
is_server_error(status) == status >= 500 /\ status <= 599

BASE_URL == "http://REDACTED_HOST:38080"

\* json["url"].as_str() and json["originalFileName"].as_str() of the response body.
JsonParses(body) ==
    body \in {"url_and_name", "url_only", "url_bad_name", "url_not_string", "no_url"}
\* json["url"].as_str(): "url_only" is {"url": "/img/a%20b.png"}, "url_bad_name" is
\* {"url": "/img/abc.png", "originalFileName": 7}.
JsonUrl(body) ==
    IF body \in {"url_and_name", "url_bad_name"} THEN Some("/img/abc.png")
    ELSE IF body = "url_only" THEN Some("/img/a%20b.png")
    ELSE None
\* json["originalFileName"].as_str()
JsonOriginalFileName(body) == IF body = "url_and_name" THEN Some("shot.png") ELSE None

\* Mutant: the path is percent-decoded before it is put after the base URL.
ParseSuccessDecoded(body, size_bytes) ==
    IF JsonParses(body)
    THEN IF JsonUrl(body) # None
         THEN Ok(UploadResult(TRUE,
                              Some(BASE_URL \o (IF JsonUrl(body)[1] = "/img/a%20b.png"
                                                THEN "/img/a b.png" ELSE JsonUrl(body)[1])),
                              Some(IF JsonOriginalFileName(body) # None
                                   THEN JsonOriginalFileName(body)[1] ELSE "image.png"),
                              Some(format_size(size_bytes)),
                              None))
         ELSE Err(Msg("No 'url' field in response", 0, body))
    ELSE Err(Msg("Failed to parse JSON", 0, body))

\* The Ok(resp) arm with a success status.
ParseSuccess(body, size_bytes) ==
    IF JsonParses(body)
    THEN IF JsonUrl(body) # None
         THEN Ok(UploadResult(TRUE,
                              Some(BASE_URL \o JsonUrl(body)[1]),
                              Some(IF JsonOriginalFileName(body) # None
                                   THEN JsonOriginalFileName(body)[1] ELSE "image.png"),
                              Some(format_size(size_bytes)),
                              None))
         ELSE Err(Msg("No 'url' field in response", 0, body))
    ELSE Err(Msg("Failed to parse JSON", 0, body))

\* Mutant: one retry too many on a server error.
RetryOnStatusOffByOne(status, retry_count) ==
    (is_server_error(status) \/ status = 429) /\ retry_count < 3

\* Mutant: every error status is retried, not only 5xx and 429.
RetryOnStatusAnyError(status, retry_count) ==
    status >= 400 /\ retry_count < 2

\* Mutant: 429 is not retried, only 5xx.
RetryOnStatusServerOnly(status, retry_count) ==
    is_server_error(status) /\ retry_count < 2

\* else if (status.is_server_error() || status == 429) && retry_count < 2
RetryOnStatus(status, retry_count) ==
    (is_server_error(status) \/ status = 429) /\ retry_count < 2

\* Mutant: every transport error is retried while retry_count < 2.
RetryOnTransportAny(e, retry_count) ==
    e = "timeout" \/ (e \in {"connect", "other"} /\ retry_count < 2)

\* if e.is_timeout() || e.is_connect() && retry_count < 2
RetryOnTransport(e, retry_count) ==
    e = "timeout" \/ (e = "connect" /\ retry_count < 2)

\* Mutant: a success status whose body cannot be used is retried like a 5xx.
ClassifyRetryProtocol(resp, retry_count, size_bytes) ==
    IF resp.transport = "ok"
    THEN IF is_success(resp.status)
         THEN IF ~ParseSuccess(resp.body, size_bytes).ok /\ retry_count < 2
              THEN [retry |-> TRUE, ret |-> Pending]
              ELSE [retry |-> FALSE, ret |-> ParseSuccess(resp.body, size_bytes)]
         ELSE IF RetryOnStatus(resp.status, retry_count)
         THEN [retry |-> TRUE, ret |-> Pending]
         ELSE [retry |-> FALSE,
               ret |-> Err(Msg("Upload failed with status", resp.status, resp.body))]
    ELSE IF RetryOnTransport(resp.transport, retry_count)
         THEN [retry |-> TRUE, ret |-> Pending]
         ELSE [retry |-> FALSE, ret |-> Err(Msg("Network error", 0, resp.transport))]

\* What one pass through the match on the response decides: retry, or the
\* value the call chain returns.
Classify(resp, retry_count, size_bytes) ==
    IF resp.transport = "ok"
    THEN IF is_success(resp.status)
         THEN [retry |-> FALSE, ret |-> ParseSuccess(resp.body, size_bytes)]
         ELSE IF RetryOnStatus(resp.status, retry_count)
         THEN [retry |-> TRUE, ret |-> Pending]
         ELSE [retry |-> FALSE,
               ret |-> Err(Msg("Upload failed with status", resp.status, resp.body))]
    ELSE IF RetryOnTransport(resp.transport, retry_count)
         THEN [retry |-> TRUE, ret |-> Pending]
         ELSE [retry |-> FALSE, ret |-> Err(Msg("Network error", 0, resp.transport))]

\* ------------------------------------------------------------------ state

VARIABLES
    config,       \* the config file, the cache of get_config and the calls of
                  \* get_config and init_config
    stats,        \* the sys and networks mutexes of AppState and the position of each
                  \* get_system_stats call
    tray,         \* the status-bar lock, the update closures queued for the main thread,
                  \* and the position of the closure the main thread is running
    thread,       \* per run: the thread it executes on ("none" before it starts)
    key,          \* the hotkey Shift+Cmd+U: "up" or "down"
    calc,         \* the call of a pure function made on its own: op, in, out
    clipboard,    \* what the OS clipboard holds
    window,       \* the "main" webview window: "absent", "hidden" or "visible"
    ui,           \* UI calls made so far, all runs, in the order made
    pc,           \* per run: where the worker stands
    image,        \* per run: the image_data read from the clipboard
    arg,          \* per run: image_base64 handed to upload_image_with_retry
    retry_count,  \* per run: retry_count of the current call of the chain
    history,      \* per run: the PUT requests sent, each with what send() gave
    last,         \* per run: outcome of the latest send()
    ret,          \* per run: what the call chain returned / the error to report
    trace         \* per run: the steps the worker has taken, in order

vars == <<config, stats, tray, thread, key, calc, clipboard, window, ui, pc, image, arg, retry_count, history, last, ret, trace>>

NoResponse == [transport |-> "none", status |-> 0, body |-> "none"]
NoArg == [data_url |-> FALSE, valid |-> FALSE, bytes |-> None]

\* HTTP PUT requests the call chain of run r has sent (counted up to MaxRequests).
Requests(r) == Len(history[r])

\* Appends events to a trace, up to MaxTrace.
Log(t, es) == SubSeq(t \o es, 1, Min(Len(t) + Len(es), MaxTrace))

\* One call on the window or the app handle, and whether it returned Ok.
UiCall(r, ev, payload, ok) == [run |-> r, ev |-> ev, payload |-> payload, ok |-> ok]

\* A call that returned Ok.
UiEvent(r, ev, payload) == UiCall(r, ev, payload, TRUE)

NoCall == [op |-> "none", in |-> 0, out |-> 0]

\* What get_config_path() can point at: no file, the file init_config writes
\* (an [upload] table only), text that is not TOML, a [mijia] table with an
\* empty api_key, and two complete [mijia] tables.
FileStates == {"missing", "default", "garbage", "partial", "mijia_A", "mijia_B"}

\* The threads the model lets call get_config at one time.
ConfigCallers == {1, 2}

\* The return value of get_config not yet there.
NoResult == [ok |-> FALSE, pair |-> <<>>, error |-> "pending"]

\* static CACHED: OnceLock::new(), no call of get_config or init_config under
\* way, the config file in state f.
NoConfig(f) ==
    [file   |-> f,
     cached |-> [set |-> FALSE, value |-> None],
     loader |-> 0,
     loaded |-> {},
     at     |-> [c \in ConfigCallers |-> "idle"],
     got    |-> [c \in ConfigCallers |-> NoResult],
     init   |-> [at |-> "idle", result |-> "pending", found |-> "none"]]

\* The calls of get_system_stats the model lets run at one time.
StatsCallers == {1, 2}

\* After manage(AppState { .. }): both mutexes are free (0: no holder) and no
\* call of get_system_stats is under way.
NoStats ==
    [held |-> [sys |-> 0, networks |-> 0], at |-> [c \in StatsCallers |-> "idle"]]

\* After setup(): the status item is stored, its lock is free, the update loop
\* runs, no update closure is queued and the main thread runs none.
NoTray == [lock |-> "free", queued |-> 0, main |-> "idle", item |-> "stored", loop |-> TRUE]

\* The state after setup(): the shortcut is registered, no worker runs yet, the
\* main window exists (shown or hidden).
Init ==
    /\ config = NoConfig("missing")
    /\ stats = NoStats
    /\ tray = NoTray
    /\ thread = [r \in Runs |-> "none"]
    /\ key = "up"
    /\ calc = NoCall
    /\ clipboard \in ClipboardContents
    /\ window \in {"hidden", "visible"}
    /\ ui = <<>>
    /\ pc = [r \in Runs |-> IF r \in Solo THEN "idle" ELSE "unused"]
    /\ image = [r \in Runs |-> NoImage]
    /\ arg = [r \in Runs |-> NoArg]
    /\ retry_count = [r \in Runs |-> 0]
    /\ history = [r \in Runs |-> <<>>]
    /\ last = [r \in Runs |-> NoResponse]
    /\ ret = [r \in Runs |-> Pending]
    /\ trace = [r \in Runs |-> <<>>]

\* ------------------------------------------------------------------ environment

\* The user copies something else: the clipboard changes under the pipeline.
\* Explored while some worker has yet to read the clipboard (no later step reads it).
UserCopy ==
    /\ \E r \in Runs : pc[r] \in {"idle", "clipboard_new", "get_image"}
    /\ \E c \in ClipboardContents : c # clipboard /\ clipboard' = c
    /\ UNCHANGED <<config, stats, tray, thread, key, calc, window, ui, pc, image, arg, retry_count, history, last, ret, trace>>

\* ------------------------------------------------------------------ the handler

\* Mutant: the handler does not look at the event's state.
StartsRunAnyState(state) == state \in {"Pressed", "Released"}

\* if event.state == ShortcutState::Pressed
StartsRun(state) == state = "Pressed"

\* Workers not yet spawned.
FreshRuns == { r \in Runs : pc[r] \in {"idle", "unused"} }

\* Mutant: a press is dropped while an earlier run is still in flight.
PressedCoalesced(r) ==
    /\ key = "up"
    /\ pc[r] = "idle"
    /\ \A q \in Runs : q < r => pc[q] # "idle"
    /\ key' = "down"
    /\ pc' = IF \E q \in Runs : pc[q] \notin {"idle", "unused", "done"}
             THEN [pc EXCEPT ![r] = "done"]
             ELSE [pc EXCEPT ![r] = "clipboard_new"]
    /\ thread' = [thread EXCEPT ![r] = "worker"]
    /\ UNCHANGED <<config, stats, tray, calc, clipboard, window, ui, image, arg, retry_count, history, last, ret, trace>>

\* ShortcutState::Pressed: spawn_blocking of one worker; the handler returns.
Pressed(r) ==
    /\ key = "up"
    /\ pc[r] = "idle"
    /\ \A q \in Runs : q < r => pc[q] # "idle"
    /\ key' = "down"
    /\ pc' = IF StartsRun("Pressed") THEN [pc EXCEPT ![r] = "clipboard_new"] ELSE pc
    /\ thread' = IF StartsRun("Pressed") THEN [thread EXCEPT ![r] = "worker"] ELSE thread
    /\ UNCHANGED <<config, stats, tray, calc, clipboard, window, ui, image, arg, retry_count, history, last, ret, trace>>

\* ShortcutState::Released: the handler is called and does nothing.
Released ==
    /\ key = "down"
    /\ key' = "up"
    /\ pc' = IF StartsRun("Released") /\ FreshRuns # {}
             THEN [pc EXCEPT ![CHOOSE r \in FreshRuns : \A q \in FreshRuns : r <= q] =
                       "clipboard_new"]
             ELSE pc
    /\ thread' = [r \in Runs |-> IF pc'[r] # pc[r] THEN "worker" ELSE thread[r]]
    /\ UNCHANGED <<config, stats, tray, calc, clipboard, window, ui, image, arg, retry_count, history, last, ret, trace>>

\* if let Ok(mut clipboard) = Clipboard::new() ... else { log::error!(..) }
ClipboardNew(r) ==
    /\ pc[r] = "clipboard_new"
    /\ \E opened \in BOOLEAN :
         pc' = [pc EXCEPT ![r] = IF opened THEN "get_image" ELSE "done"]
    /\ trace' = [trace EXCEPT ![r] = Log(@, <<"clipboard_new">>)]
    /\ UNCHANGED <<config, stats, tray, thread, key, calc, clipboard, window, ui, image, arg, retry_count, history, last, ret>>

\* Mutant: reading the image takes it off the clipboard.
GetImageTakes(r) ==
    /\ pc[r] = "get_image"
    /\ IF clipboard.has
       THEN /\ image' = [image EXCEPT ![r] = clipboard]
            /\ pc' = [pc EXCEPT ![r] = "encode"]
            /\ ret' = ret
       ELSE /\ image' = image
            /\ pc' = [pc EXCEPT ![r] = "notify"]
            /\ ret' = [ret EXCEPT ![r] = Err(Msg("No image in clipboard", 0, ""))]
    /\ trace' = [trace EXCEPT ![r] = Log(@, <<"get_image">>)]
    /\ clipboard' = NoImage
    /\ UNCHANGED <<config, stats, tray, thread, key, calc, window, ui, arg, retry_count, history, last>>

\* if let Ok(image_data) = clipboard.get_image() ... else "No image in clipboard"
GetImage(r) ==
    /\ pc[r] = "get_image"
    /\ IF clipboard.has
       THEN /\ image' = [image EXCEPT ![r] = clipboard]
            /\ pc' = [pc EXCEPT ![r] = "encode"]
            /\ ret' = ret
       ELSE /\ image' = image
            /\ pc' = [pc EXCEPT ![r] = "notify"]
            /\ ret' = [ret EXCEPT ![r] = Err(Msg("No image in clipboard", 0, ""))]
    /\ trace' = [trace EXCEPT ![r] = Log(@, <<"get_image">>)]
    /\ UNCHANGED <<config, stats, tray, thread, key, calc, clipboard, window, ui, arg, retry_count, history, last>>

\* Mutant: a failed write of the debug file ends the run with an error outcome.
EncodeWriteFatal(r) ==
    /\ pc[r] = "encode"
    /\ LET png == rgba_to_png(image[r])
       IN  IF png.ok
           THEN \E written \in BOOLEAN :
                /\ trace' = [trace EXCEPT ![r] =
                       Log(@, <<"encode", IF written THEN "debug_write_ok"
                                          ELSE "debug_write_failed">>)]
                /\ arg' = [arg EXCEPT ![r] = DataUrl(png.value)]
                /\ pc' = [pc EXCEPT ![r] = IF written THEN "upload" ELSE "notify"]
                /\ ret' = IF written THEN ret
                          ELSE [ret EXCEPT ![r] = Err(Msg("Failed to save debug image", 0, ""))]
           ELSE /\ trace' = [trace EXCEPT ![r] = Log(@, <<"encode">>)]
                /\ arg' = arg
                /\ pc' = [pc EXCEPT ![r] = "convert_failed"]
                /\ ret' = [ret EXCEPT ![r] =
                       Err(Msg("Failed to convert image", 0, png.value.kind))]
    /\ UNCHANGED <<config, stats, tray, thread, key, calc, clipboard, window, ui, image, retry_count, history, last>>

\* Mutant: the window is shown as soon as the image is encoded, before the upload.
EncodeThenShow(r) ==
    /\ pc[r] = "encode"
    /\ LET png == rgba_to_png(image[r])
       IN  IF png.ok
           THEN /\ \E written \in BOOLEAN :
                     trace' = [trace EXCEPT ![r] =
                         Log(@, <<"encode", IF written THEN "debug_write_ok"
                                            ELSE "debug_write_failed", "show">>)]
                /\ arg' = [arg EXCEPT ![r] = DataUrl(png.value)]
                /\ pc' = [pc EXCEPT ![r] = "upload"]
                /\ ret' = ret
           ELSE /\ trace' = [trace EXCEPT ![r] = Log(@, <<"encode">>)]
                /\ arg' = arg
                /\ pc' = [pc EXCEPT ![r] = "convert_failed"]
                /\ ret' = [ret EXCEPT ![r] =
                       Err(Msg("Failed to convert image", 0, png.value.kind))]
    /\ UNCHANGED <<config, stats, tray, thread, key, calc, clipboard, window, ui, image, retry_count, history, last>>

\* match rgba_to_png(..): Ok(data) => data, then the debug file write and the
\* base64 data URL; Err(e) => the convert-failure branch.
Encode(r) ==
    /\ pc[r] = "encode"
    /\ LET png == rgba_to_png(image[r])
       IN  IF png.ok
           THEN /\ \E written \in BOOLEAN :
                     trace' = [trace EXCEPT ![r] =
                         Log(@, <<"encode", IF written THEN "debug_write_ok"
                                            ELSE "debug_write_failed">>)]
                /\ arg' = [arg EXCEPT ![r] = DataUrl(png.value)]
                /\ pc' = [pc EXCEPT ![r] = "upload"]
                /\ ret' = ret
           ELSE /\ trace' = [trace EXCEPT ![r] = Log(@, <<"encode">>)]
                /\ arg' = arg
                /\ pc' = [pc EXCEPT ![r] = "convert_failed"]
                /\ ret' = [ret EXCEPT ![r] =
                       Err(Msg("Failed to convert image", 0, png.value.kind))]
    /\ UNCHANGED <<config, stats, tray, thread, key, calc, clipboard, window, ui, image, retry_count, history, last>>

\* Mutant: a part or client that cannot be built is retried like a 5xx.
UploadAttemptRetriesPrep(r, preps, resps) ==
    /\ pc[r] = "upload"
    /\ LET decoded == Base64Decode(arg[r])
       IN  IF ~decoded.ok
           THEN /\ ret' = [ret EXCEPT ![r] = decoded]
                /\ pc' = [pc EXCEPT ![r] = "notify"]
                /\ UNCHANGED <<history, last, trace>>
           ELSE \E prep \in preps :
                IF prep # "ready"
                THEN /\ ret' = [ret EXCEPT ![r] =
                            IF retry_count[r] < 2 THEN @
                            ELSE Err(Msg(IF prep = "part_failed"
                                         THEN "Failed to create mime part"
                                         ELSE "Failed to create HTTP client", 0, ""))]
                     /\ pc' = [pc EXCEPT ![r] =
                            IF retry_count[r] < 2 THEN "retry_sleep" ELSE "notify"]
                     /\ UNCHANGED <<history, last, trace>>
                ELSE \E resp \in resps :
                     LET c == Classify(resp, retry_count[r], decoded.value.size)
                     IN  /\ history' = [history EXCEPT ![r] =
                                IF Len(@) < MaxRequests
                                THEN Append(@, [bytes |-> decoded.value, resp |-> resp])
                                ELSE @]
                         /\ last' = [last EXCEPT ![r] = resp]
                         /\ trace' = [trace EXCEPT ![r] = Log(@, <<"put">>)]
                         /\ IF c.retry
                            THEN /\ pc' = [pc EXCEPT ![r] = "retry_sleep"]
                                 /\ ret' = ret
                            ELSE /\ pc' = [pc EXCEPT ![r] = "notify"]
                                 /\ ret' = [ret EXCEPT ![r] = c.ret]
    /\ UNCHANGED <<config, stats, tray, thread, key, calc, clipboard, window, ui, image, arg, retry_count>>

\* One call of upload_image_with_retry(image_base64, retry_count) up to its
\* return or its recursive call: base64 decode, multipart form, client, PUT,
\* and the match on the response.
UploadAttemptWith(r, preps, resps) ==
    /\ pc[r] = "upload"
    /\ LET decoded == Base64Decode(arg[r])
       IN  IF ~decoded.ok
           THEN /\ ret' = [ret EXCEPT ![r] = decoded]
                /\ pc' = [pc EXCEPT ![r] = "notify"]
                /\ UNCHANGED <<history, last, trace>>
           ELSE \E prep \in preps :
                IF prep # "ready"
                THEN /\ ret' = [ret EXCEPT ![r] =
                            Err(Msg(IF prep = "part_failed" THEN "Failed to create mime part"
                                    ELSE "Failed to create HTTP client", 0, ""))]
                     /\ pc' = [pc EXCEPT ![r] = "notify"]
                     /\ UNCHANGED <<history, last, trace>>
                ELSE \E resp \in resps :
                     LET c == Classify(resp, retry_count[r], decoded.value.size)
                     IN  /\ history' = [history EXCEPT ![r] =
                                IF Len(@) < MaxRequests
                                THEN Append(@, [bytes |-> decoded.value, resp |-> resp])
                                ELSE @]
                         /\ last' = [last EXCEPT ![r] = resp]
                         /\ trace' = [trace EXCEPT ![r] = Log(@, <<"put">>)]
                         /\ IF c.retry
                            THEN /\ pc' = [pc EXCEPT ![r] = "retry_sleep"]
                                 /\ ret' = ret
                            ELSE /\ pc' = [pc EXCEPT ![r] = "notify"]
                                 /\ ret' = [ret EXCEPT ![r] = c.ret]
    /\ UNCHANGED <<config, stats, tray, thread, key, calc, clipboard, window, ui, image, arg, retry_count>>

\* The call made by the hotkey worker: the part is built from a fixed file name and
\* MIME type, the client may fail to build, the server may answer anything.
UploadAttempt(r) == UploadAttemptWith(r, {"client_failed", "ready"}, Responses)

\* Mutant: the attempt counter is one counter shared by all runs.
RetrySleepShared(r) ==
    /\ pc[r] = "retry_sleep"
    /\ retry_count' = [q \in Runs |-> Min(retry_count[r] + 1, RetryCountCap)]
    /\ trace' = [trace EXCEPT ![r] = Log(@, <<"sleep_1s">>)]
    /\ pc' = [pc EXCEPT ![r] = "upload"]
    /\ UNCHANGED <<config, stats, tray, thread, key, calc, clipboard, window, ui, image, arg, history, last, ret>>

\* thread::sleep(Duration::from_secs(1)); upload_image_with_retry(image_base64, retry_count + 1)
RetrySleep(r) ==
    /\ pc[r] = "retry_sleep"
    /\ retry_count' = [retry_count EXCEPT ![r] = Min(@ + 1, RetryCountCap)]
    /\ trace' = [trace EXCEPT ![r] = Log(@, <<"sleep_1s">>)]
    /\ pc' = [pc EXCEPT ![r] = "upload"]
    /\ UNCHANGED <<config, stats, tray, thread, key, calc, clipboard, window, ui, image, arg, history, last, ret>>

\* The UploadResult the handler emits for what the run ended with.
Outcome(r) == IF ret[r].ok THEN ret[r].value ELSE FailureResult(ret[r].value)

\* Mutant: the no-image branch shows the window but leaves out "switch-to-upload".
NotifyWindowNoSwitch(r) ==
    /\ pc[r] = "notify"
    /\ IF window # "absent"
       THEN /\ window' = "visible"
            /\ ui' = ui \o <<UiEvent(r, "show", None), UiEvent(r, "set_focus", None)>>
            /\ trace' = [trace EXCEPT ![r] = Log(@, <<"show", "set_focus">>)]
            /\ pc' = [pc EXCEPT ![r] =
                   IF ret[r] = Err(Msg("No image in clipboard", 0, "")) THEN "result"
                   ELSE "switch"]
       ELSE /\ UNCHANGED <<window, ui, trace>>
            /\ pc' = [pc EXCEPT ![r] = "result"]
    /\ UNCHANGED <<config, stats, tray, thread, key, calc, clipboard, image, arg, retry_count, history, last, ret>>

\* Mutant: a failed window.show() ends the worker (show()? in place of let _ =).
NotifyWindowAborts(r, oks) ==
    /\ pc[r] = "notify"
    /\ IF window # "absent"
       THEN \E shown, focused \in oks :
            /\ window' = IF shown THEN "visible" ELSE window
            /\ ui' = ui \o <<UiCall(r, "show", None, shown)>>
                        \o (IF shown THEN <<UiCall(r, "set_focus", None, focused)>> ELSE <<>>)
            /\ trace' = [trace EXCEPT ![r] =
                   Log(@, IF shown THEN <<"show", "set_focus">> ELSE <<"show">>)]
            /\ pc' = [pc EXCEPT ![r] = IF shown THEN "switch" ELSE "done"]
       ELSE /\ UNCHANGED <<window, ui, trace>>
            /\ pc' = [pc EXCEPT ![r] = "result"]
    /\ UNCHANGED <<config, stats, tray, thread, key, calc, clipboard, image, arg, retry_count, history, last, ret>>

\* Mutant: the result emission sits inside the if-let of the window lookup.
NotifyWindowGuardsResult(r, oks) ==
    /\ pc[r] = "notify"
    /\ IF window # "absent"
       THEN \E shown, focused \in oks :
            /\ window' = IF shown THEN "visible" ELSE window
            /\ ui' = ui \o <<UiCall(r, "show", None, shown),
                             UiCall(r, "set_focus", None, focused)>>
            /\ trace' = [trace EXCEPT ![r] = Log(@, <<"show", "set_focus">>)]
            /\ pc' = [pc EXCEPT ![r] = "switch"]
       ELSE /\ UNCHANGED <<window, ui, trace>>
            /\ pc' = [pc EXCEPT ![r] = "done"]
    /\ UNCHANGED <<config, stats, tray, thread, key, calc, clipboard, image, arg, retry_count, history, last, ret>>

\* if let Some(window) = handle.get_webview_window("main") {
\*     let _ = window.show(); let _ = window.set_focus(); ..
\* in the Ok, Err and no-image branches. oks: the results the calls can have.
NotifyWindowWith(r, oks) ==
    /\ pc[r] = "notify"
    /\ IF window # "absent"
       THEN \E shown, focused \in oks :
            /\ window' = IF shown THEN "visible" ELSE window
            /\ ui' = ui \o <<UiCall(r, "show", None, shown),
                             UiCall(r, "set_focus", None, focused)>>
            /\ trace' = [trace EXCEPT ![r] = Log(@, <<"show", "set_focus">>)]
            /\ pc' = [pc EXCEPT ![r] = "switch"]
       ELSE /\ UNCHANGED <<window, ui, trace>>
            /\ pc' = [pc EXCEPT ![r] = "result"]
    /\ UNCHANGED <<config, stats, tray, thread, key, calc, clipboard, image, arg, retry_count, history, last, ret>>

\* thread::sleep(50 ms); let _ = window.emit("switch-to-upload", ())
SwitchToUploadWith(r, oks) ==
    /\ pc[r] = "switch"
    /\ \E sent \in oks : ui' = Append(ui, UiCall(r, "switch-to-upload", None, sent))
    /\ trace' = [trace EXCEPT ![r] = Log(@, <<"sleep_50ms", "switch-to-upload">>)]
    /\ pc' = [pc EXCEPT ![r] = "result"]
    /\ UNCHANGED <<config, stats, tray, thread, key, calc, clipboard, window, image, arg, retry_count, history, last, ret>>

\* thread::sleep(50 ms); let _ = handle.emit("upload-result", ..)
EmitResultWith(r, oks) ==
    /\ pc[r] = "result"
    /\ \E sent \in oks : ui' = Append(ui, UiCall(r, "upload-result", Some(Outcome(r)), sent))
    /\ trace' = [trace EXCEPT ![r] = Log(@, <<"sleep_50ms", "upload-result">>)]
    /\ pc' = [pc EXCEPT ![r] = "done"]
    /\ UNCHANGED <<config, stats, tray, thread, key, calc, clipboard, window, image, arg, retry_count, history, last, ret>>

\* Err(e) of rgba_to_png: let _ = handle.emit("upload-result", ..) comes first
ConvertFailedEmitWith(r, oks) ==
    /\ pc[r] = "convert_failed"
    /\ \E sent \in oks : ui' = Append(ui, UiCall(r, "upload-result", Some(Outcome(r)), sent))
    /\ trace' = [trace EXCEPT ![r] = Log(@, <<"upload-result">>)]
    /\ pc' = [pc EXCEPT ![r] = "convert_failed_window"]
    /\ UNCHANGED <<config, stats, tray, thread, key, calc, clipboard, window, image, arg, retry_count, history, last, ret>>

\* ... then show, set_focus and "switch-to-upload" with no sleep, and return.
ConvertFailedWindowWith(r, oks) ==
    /\ pc[r] = "convert_failed_window"
    /\ IF window # "absent"
       THEN \E shown, focused, sent \in oks :
            /\ window' = IF shown THEN "visible" ELSE window
            /\ ui' = ui \o <<UiCall(r, "show", None, shown),
                             UiCall(r, "set_focus", None, focused),
                             UiCall(r, "switch-to-upload", None, sent)>>
            /\ trace' = [trace EXCEPT ![r] =
                   Log(@, <<"show", "set_focus", "switch-to-upload">>)]
       ELSE UNCHANGED <<window, ui, trace>>
    /\ pc' = [pc EXCEPT ![r] = "done"]
    /\ UNCHANGED <<config, stats, tray, thread, key, calc, clipboard, image, arg, retry_count, history, last, ret>>

\* The notification steps when every UI call returns Ok.
NotifyWindow(r) == NotifyWindowWith(r, {TRUE})
SwitchToUpload(r) == SwitchToUploadWith(r, {TRUE})
EmitResult(r) == EmitResultWith(r, {TRUE})
ConvertFailedEmit(r) == ConvertFailedEmitWith(r, {TRUE})
ConvertFailedWindow(r) == ConvertFailedWindowWith(r, {TRUE})

\* ------------------------------------------------------------------ specification

\* The steps of the worker of run r.
Worker(r) ==
    \/ ClipboardNew(r)
    \/ GetImage(r)
    \/ Encode(r)
    \/ UploadAttempt(r)
    \/ RetrySleep(r)
    \/ NotifyWindow(r)
    \/ SwitchToUpload(r)
    \/ EmitResult(r)
    \/ ConvertFailedEmit(r)
    \/ ConvertFailedWindow(r)

Next ==
    \/ UserCopy
    \/ \E r \in Runs : Pressed(r)
    \/ Released
    \/ \E r \in Runs : Worker(r)

Spec == Init /\ [][Next]_vars

\* spawn_blocking runs every worker on a pool thread: a worker that can take a
\* step eventually takes one (each send() returns within its 60 s timeout).
FairSpec == Spec /\ \A r \in Runs : WF_vars(Worker(r))

\* ------------------------------------------- one run whose UI calls can fail

\* The server answers this exploration can draw: the success and one retried error.
FewResponses ==
    { resp \in Responses :
        /\ resp.transport = "ok"
        /\ \/ resp.status = 200 /\ resp.body = "url_and_name"
           \/ resp.status = 503 }

\* The steps of the worker of run r when show, set_focus and emit may return Err.
WorkerUi(r) ==
    \/ ClipboardNew(r)
    \/ GetImage(r)
    \/ Encode(r)
    \/ UploadAttemptWith(r, {"ready"}, FewResponses)
    \/ RetrySleep(r)
    \/ NotifyWindowWith(r, BOOLEAN)
    \/ SwitchToUploadWith(r, BOOLEAN)
    \/ EmitResultWith(r, BOOLEAN)
    \/ ConvertFailedEmitWith(r, BOOLEAN)
    \/ ConvertFailedWindowWith(r, BOOLEAN)

NextUi ==
    \/ \E r \in Runs : Pressed(r)
    \/ \E r \in Runs : WorkerUi(r)

SpecUi == Init /\ [][NextUi]_vars

\* ------------------------------------------- a run without a main window

\* handle.get_webview_window("main") returns an Option: the window list of the
\* application is configuration, so the lookup can find no window "main".
InitNoWindow ==
    /\ config = NoConfig("missing")
    /\ stats = NoStats
    /\ tray = NoTray
    /\ thread = [r \in Runs |-> "none"]
    /\ key = "up"
    /\ calc = NoCall
    /\ clipboard \in ClipboardContents
    /\ window \in {"absent", "hidden", "visible"}
    /\ ui = <<>>
    /\ pc = [r \in Runs |-> IF r \in Solo THEN "idle" ELSE "unused"]
    /\ image = [r \in Runs |-> NoImage]
    /\ arg = [r \in Runs |-> NoArg]
    /\ retry_count = [r \in Runs |-> 0]
    /\ history = [r \in Runs |-> <<>>]
    /\ last = [r \in Runs |-> NoResponse]
    /\ ret = [r \in Runs |-> Pending]
    /\ trace = [r \in Runs |-> <<>>]

\* The steps of the worker with the few server answers, every UI call Ok.
WorkerNoWindow(r) ==
    \/ ClipboardNew(r)
    \/ GetImage(r)
    \/ Encode(r)
    \/ UploadAttemptWith(r, {"client_failed", "ready"}, FewResponses)
    \/ RetrySleep(r)
    \/ NotifyWindowWith(r, {TRUE})
    \/ SwitchToUploadWith(r, {TRUE})
    \/ EmitResultWith(r, {TRUE})
    \/ ConvertFailedEmitWith(r, {TRUE})
    \/ ConvertFailedWindowWith(r, {TRUE})

NextNoWindow ==
    \/ UserCopy
    \/ \E r \in Runs : Pressed(r)
    \/ Released
    \/ \E r \in Runs : WorkerNoWindow(r)

SpecNoWindow == InitNoWindow /\ [][NextNoWindow]_vars

\* ------------------------------------------- two presses, two workers

\* Both runs are to be started: the hotkey is pressed twice.
InitPair ==
    /\ config = NoConfig("missing")
    /\ stats = NoStats
    /\ tray = NoTray
    /\ thread = [r \in Runs |-> "none"]
    /\ key = "up"
    /\ calc = NoCall
    /\ clipboard \in ClipboardContents
    /\ window \in {"hidden", "visible"}
    /\ ui = <<>>
    /\ pc = [r \in Runs |-> "idle"]
    /\ image = [r \in Runs |-> NoImage]
    /\ arg = [r \in Runs |-> NoArg]
    /\ retry_count = [r \in Runs |-> 0]
    /\ history = [r \in Runs |-> <<>>]
    /\ last = [r \in Runs |-> NoResponse]
    /\ ret = [r \in Runs |-> Pending]
    /\ trace = [r \in Runs |-> <<>>]

\* The steps of the worker of run r, the server answering with 200 or 503.
WorkerPair(r) ==
    \/ ClipboardNew(r)
    \/ GetImage(r)
    \/ Encode(r)
    \/ UploadAttemptWith(r, {"client_failed", "ready"}, FewResponses)
    \/ RetrySleep(r)
    \/ NotifyWindow(r)
    \/ SwitchToUpload(r)
    \/ EmitResult(r)
    \/ ConvertFailedEmit(r)
    \/ ConvertFailedWindow(r)

NextPair ==
    \/ UserCopy
    \/ \E r \in Runs : Pressed(r)
    \/ Released
    \/ \E r \in Runs : WorkerPair(r)

SpecPair == InitPair /\ [][NextPair]_vars

\* ------------------------------------------- the main thread: commands and the status bar

\* Update closures the model lets wait for the main thread at one time.
MaxQueued == 1

\* The raw RGBA bytes of a clipboard image as get_clipboard_image hands them on.
RawBytes(img) ==
    [magic |-> None, width |-> img.width, height |-> img.height,
     pixels |-> img.len, size |-> img.len]

\* Values of image_base64 the frontend passes to upload_image: what
\* get_clipboard_image returned, base64 without the data-URL prefix, and a
\* string that is not base64.
CommandArgs ==
    { DataUrl(RawBytes(img)) : img \in Images }
    \cup { [data_url |-> FALSE, valid |-> TRUE, bytes |-> RawBytes(img)] : img \in Images }
    \cup { [data_url |-> TRUE, valid |-> FALSE, bytes |-> None] }

\* Values of the retry_count argument of upload_image.
CommandRetryCounts == {None, Some(0), Some(1), Some(2)}

\* The server answers drawn for upload_image: those of FewResponses and a
\* transport error that is not retried.
CommandResponses ==
    FewResponses \cup { resp \in Responses : resp.transport = "other" }

\* The main thread runs one task at a time: a command or an update closure.
MainBusy ==
    \/ tray.main # "idle"
    \/ \E r \in Runs : thread[r] = "main" /\ pc[r] \in {"upload", "retry_sleep", "notify"}

\* Run 1 is a hotkey run, run 2 the frontend's calls of the commands.
InitMain ==
    /\ config = NoConfig("missing")
    /\ stats = NoStats
    /\ tray = NoTray
    /\ thread = [r \in Runs |-> "none"]
    /\ key = "up"
    /\ calc = NoCall
    /\ clipboard \in ClipboardContents
    /\ window = "visible"
    /\ ui = <<>>
    /\ pc = [r \in Runs |-> IF r \in Solo THEN "idle" ELSE "frontend"]
    /\ image = [r \in Runs |-> NoImage]
    /\ arg = [r \in Runs |-> NoArg]
    /\ retry_count = [r \in Runs |-> 0]
    /\ history = [r \in Runs |-> <<>>]
    /\ last = [r \in Runs |-> NoResponse]
    /\ ret = [r \in Runs |-> Pending]
    /\ trace = [r \in Runs |-> <<>>]

\* #[tauri::command] fn get_clipboard_image(): a command that is not async runs
\* on the main thread. The frontend keeps the data URL it returns.
InvokeGetClipboardImage(r) ==
    /\ pc[r] = "frontend"
    /\ ~MainBusy
    /\ thread' = [thread EXCEPT ![r] = "main"]
    /\ pc' = [pc EXCEPT ![r] = "pasted"]
    /\ \E opened \in BOOLEAN :
         IF opened /\ clipboard.has
         THEN /\ arg' = [arg EXCEPT ![r] = DataUrl(RawBytes(clipboard))]
              /\ trace' = [trace EXCEPT ![r] = Log(@, <<"clipboard_new", "get_image">>)]
         ELSE /\ arg' = arg
              /\ trace' = [trace EXCEPT ![r] =
                     Log(@, IF opened THEN <<"clipboard_new", "get_image">>
                            ELSE <<"clipboard_new">>)]
    /\ UNCHANGED <<config, stats, tray, key, calc, clipboard, window, ui, image, retry_count, history, last, ret>>

\* Mutant: upload_image takes the status-bar lock before uploading and keeps it.
InvokeUploadImageLocked(r, args, counts) ==
    /\ pc[r] \in {"frontend", "pasted"}
    /\ ~MainBusy
    /\ tray.lock = "free"
    /\ tray' = [tray EXCEPT !.lock = "main"]
    /\ thread' = [thread EXCEPT ![r] = "main"]
    /\ \E a \in args \cup ({arg[r]} \ {NoArg}) : arg' = [arg EXCEPT ![r] = a]
    /\ \E c \in counts :
         retry_count' = [retry_count EXCEPT ![r] = IF c = None THEN 0 ELSE c[1]]
    /\ pc' = [pc EXCEPT ![r] = "upload"]
    /\ UNCHANGED <<config, stats, key, calc, clipboard, window, ui, image, history, last, ret, trace>>

\* #[tauri::command] fn upload_image(image_base64, retry_count): runs on the main
\* thread and calls upload_image_with_retry(image_base64, retry_count.unwrap_or(0)).
InvokeUploadImageWith(r, args, counts) ==
    /\ pc[r] \in {"frontend", "pasted"}
    /\ ~MainBusy
    /\ thread' = [thread EXCEPT ![r] = "main"]
    /\ \E a \in args \cup ({arg[r]} \ {NoArg}) : arg' = [arg EXCEPT ![r] = a]
    /\ \E c \in counts :
         retry_count' = [retry_count EXCEPT ![r] = IF c = None THEN 0 ELSE c[1]]
    /\ pc' = [pc EXCEPT ![r] = "upload"]
    /\ UNCHANGED <<config, stats, tray, key, calc, clipboard, window, ui, image, history, last, ret, trace>>

\* upload_image returns its Result to the frontend; no UI event is emitted.
CommandReturns(r) ==
    /\ pc[r] = "notify"
    /\ thread[r] = "main"
    /\ pc' = [pc EXCEPT ![r] = "done"]
    /\ UNCHANGED <<config, stats, tray, thread, key, calc, clipboard, window, ui, image, arg, retry_count, history, last, ret, trace>>

\* The tray thread, once a second: app.run_on_main_thread(closure).
TrayTick ==
    /\ tray.loop
    /\ tray.queued < MaxQueued
    /\ tray' = [tray EXCEPT !.queued = @ + 1]
    /\ UNCHANGED <<config, stats, thread, key, calc, clipboard, window, ui, pc, image, arg, retry_count, history, last, ret, trace>>

\* Mutant: the closure reads the status item without taking the lock.
ClosureLockSkipped ==
    /\ tray.queued > 0
    /\ ~MainBusy
    /\ tray' = [tray EXCEPT !.queued = @ - 1, !.main = "locked"]
    /\ UNCHANGED <<config, stats, thread, key, calc, clipboard, window, ui, pc, image, arg, retry_count, history, last, ret, trace>>

\* The main thread takes a queued closure: state.status_item.lock().unwrap()
ClosureLock ==
    /\ tray.queued > 0
    /\ ~MainBusy
    /\ tray.lock = "free"
    /\ tray' = [tray EXCEPT !.lock = "main", !.queued = @ - 1, !.main = "locked"]
    /\ UNCHANGED <<config, stats, thread, key, calc, clipboard, window, ui, pc, image, arg, retry_count, history, last, ret, trace>>

\* if let Some(wrapper) = lock.as_ref() { .. button.setAttributedTitle(&mut_attr_str) }
ClosureSetTitle ==
    /\ tray.main = "locked"
    /\ tray' = [tray EXCEPT !.main = IF tray.item = "stored" THEN "titled" ELSE "skipped"]
    /\ UNCHANGED <<config, stats, thread, key, calc, clipboard, window, ui, pc, image, arg, retry_count, history, last, ret, trace>>

\* The closure ends: the guard is dropped.
ClosureUnlock ==
    /\ tray.main \in {"titled", "skipped"}
    /\ tray' = [tray EXCEPT !.main = "idle", !.lock = "free"]
    /\ UNCHANGED <<config, stats, thread, key, calc, clipboard, window, ui, pc, image, arg, retry_count, history, last, ret, trace>>

\* The steps of upload_image_with_retry on the main thread, and the return of
\* the command.
CommandWith(r, preps, resps) ==
    /\ thread[r] = "main"
    /\ \/ UploadAttemptWith(r, preps, resps)
       \/ RetrySleep(r)
       \/ CommandReturns(r)

\* The frontend calls the commands with any argument; the part, the client and
\* the request can fail.
NextCmd ==
    \/ UserCopy
    \/ \E r \in Runs : InvokeGetClipboardImage(r)
    \/ \E r \in Runs : InvokeUploadImageWith(r, CommandArgs, CommandRetryCounts)
    \/ \E r \in Runs :
           CommandWith(r, {"part_failed", "client_failed", "ready"}, CommandResponses)

SpecCmd == InitMain /\ [][NextCmd]_vars

\* The steps of a hotkey worker next to the main thread's tasks.
WorkerMain(r) ==
    /\ thread[r] = "worker"
    /\ \/ ClipboardNew(r)
       \/ GetImage(r)
       \/ Encode(r)
       \/ UploadAttemptWith(r, {"ready"}, FewResponses)
       \/ RetrySleep(r)
       \/ NotifyWindow(r)
       \/ SwitchToUpload(r)
       \/ EmitResult(r)
       \/ ConvertFailedEmit(r)
       \/ ConvertFailedWindow(r)

\* A hotkey run, one upload_image call of the frontend and the status-bar
\* updates, side by side.
NextMain ==
    \/ \E r \in Runs : Pressed(r)
    \/ \E r \in Runs : WorkerMain(r)
    \/ \E r \in Runs : InvokeGetClipboardImage(r)
    \/ \E r \in Runs : InvokeUploadImageWith(r, {}, {None})
    \/ \E r \in Runs : CommandWith(r, {"ready"}, FewResponses)
    \/ TrayTick
    \/ ClosureLock
    \/ ClosureSetTitle
    \/ ClosureUnlock

SpecMain == InitMain /\ [][NextMain]_vars

\* ------------------------------------------- setup of the status item

\* Inside setup(), before the status item is created: AppState holds
\* status_item: Mutex::new(None) and the update loop is not spawned.
InitSetup ==
    /\ config = NoConfig("missing")
    /\ stats = NoStats
    /\ tray = [lock |-> "free", queued |-> 0, main |-> "setup", item |-> "none", loop |-> FALSE]
    /\ thread = [r \in Runs |-> "none"]
    /\ key = "up"
    /\ calc = NoCall
    /\ clipboard \in ClipboardContents
    /\ window = "visible"
    /\ ui = <<>>
    /\ pc = [r \in Runs |-> IF r \in Solo THEN "idle" ELSE "unused"]
    /\ image = [r \in Runs |-> NoImage]
    /\ arg = [r \in Runs |-> NoArg]
    /\ retry_count = [r \in Runs |-> 0]
    /\ history = [r \in Runs |-> <<>>]
    /\ last = [r \in Runs |-> NoResponse]
    /\ ret = [r \in Runs |-> Pending]
    /\ trace = [r \in Runs |-> <<>>]

\* let status_item = status_bar.statusItemWithLength(..);
\* if let Some(button) = status_item.button(mtm) { button.setTitle("System Monitor") }
\* The item is a local of setup(); no lock is taken.
SetupCreateItem ==
    /\ tray.main = "setup"
    /\ tray' = [tray EXCEPT !.main = "created", !.item = "local"]
    /\ UNCHANGED <<config, stats, thread, key, calc, clipboard, window, ui, pc, image, arg, retry_count, history, last, ret, trace>>

\* state.status_item.lock().unwrap()
SetupLock ==
    /\ tray.main = "created"
    /\ tray.lock = "free"
    /\ tray' = [tray EXCEPT !.main = "storing", !.lock = "main"]
    /\ UNCHANGED <<config, stats, thread, key, calc, clipboard, window, ui, pc, image, arg, retry_count, history, last, ret, trace>>

\* *guard = Some(ThreadSafeStatusItem(status_item)); the guard is dropped at
\* the end of the statement.
SetupStore ==
    /\ tray.main = "storing"
    /\ tray' = [tray EXCEPT !.main = "stored", !.item = "stored", !.lock = "free"]
    /\ UNCHANGED <<config, stats, thread, key, calc, clipboard, window, ui, pc, image, arg, retry_count, history, last, ret, trace>>

\* start_tray_update_loop(app.handle().clone()); Ok(())
SetupSpawnLoop ==
    /\ tray.main = "stored"
    /\ tray' = [tray EXCEPT !.main = "idle", !.loop = TRUE]
    /\ UNCHANGED <<config, stats, thread, key, calc, clipboard, window, ui, pc, image, arg, retry_count, history, last, ret, trace>>

\* The shortcut handler is called from the event loop, which runs once
\* setup() has returned.
PressedAfterSetup(r) ==
    /\ tray.loop
    /\ Pressed(r)

NextSetup ==
    \/ SetupCreateItem
    \/ SetupLock
    \/ SetupStore
    \/ SetupSpawnLoop
    \/ TrayTick
    \/ ClosureLock
    \/ ClosureSetTitle
    \/ ClosureUnlock
    \/ \E r \in Runs : PressedAfterSetup(r)
    \/ \E r \in Runs : WorkerMain(r)

SpecSetup == InitSetup /\ [][NextSetup]_vars

\* ------------------------------------------- get_system_stats and the locks of AppState

\* Mutant: the second caller locks networks before sys.
LockOrderByCaller(c) ==
    IF c = 1 THEN <<"sys", "networks">> ELSE <<"networks", "sys">>

\* let mut sys = state.sys.lock().unwrap();
\* let mut networks = state.networks.lock().unwrap();
LockOrder(c) == <<"sys", "networks">>

\* The frontend invokes get_system_stats; State<AppState> is shared by every
\* call, and the exploration lets calls overlap.
StatsInvoke(c) ==
    /\ stats.at[c] = "idle"
    /\ stats' = [stats EXCEPT !.at[c] = "lock_first"]
    /\ UNCHANGED <<config, tray, thread, key, calc, clipboard, window, ui, pc, image, arg, retry_count, history, last, ret, trace>>

\* Mutex::lock() blocks until the mutex is free, then the caller holds it.
StatsLock(c) ==
    /\ stats.at[c] \in {"lock_first", "lock_second"}
    /\ LET l == IF stats.at[c] = "lock_first" THEN LockOrder(c)[1] ELSE LockOrder(c)[2]
       IN  /\ stats.held[l] = 0
           /\ stats' = [stats EXCEPT
                  !.held[l] = c,
                  !.at[c] = IF stats.at[c] = "lock_first" THEN "lock_second" ELSE "refresh"]
    /\ UNCHANGED <<config, tray, thread, key, calc, clipboard, window, ui, pc, image, arg, retry_count, history, last, ret, trace>>

\* sys.refresh_all(); networks.refresh(true); .. SystemStats { .. }: the call
\* returns and both guards are dropped.
StatsReturn(c) ==
    /\ stats.at[c] = "refresh"
    /\ stats' = [stats EXCEPT
           !.held = [l \in {"sys", "networks"} |-> IF stats.held[l] = c THEN 0 ELSE stats.held[l]],
           !.at[c] = "idle"]
    /\ UNCHANGED <<config, tray, thread, key, calc, clipboard, window, ui, pc, image, arg, retry_count, history, last, ret, trace>>

\* Calls of get_system_stats, the status-bar updates of the tray loop (which
\* refreshes a System and a Networks of its own) and a hotkey run, side by side.
NextStats ==
    \/ \E c \in StatsCallers : StatsInvoke(c)
    \/ \E c \in StatsCallers : StatsLock(c)
    \/ \E c \in StatsCallers : StatsReturn(c)
    \/ TrayTick
    \/ ClosureLock
    \/ ClosureSetTitle
    \/ ClosureUnlock
    \/ \E r \in Runs : Pressed(r)
    \/ \E r \in Runs : WorkerMain(r)

SpecStats == Init /\ [][NextStats]_vars

\* ------------------------------------------- the config file: get_config and init_config

\* load_config(): Config::default() when the file is missing, unreadable or
\* not valid TOML, else the parsed tables; here its mijia table.
load_config(f, readable) ==
    IF f = "missing" \/ ~readable \/ f = "garbage" THEN [api_base |-> "", api_key |-> ""]
    ELSE IF f = "default" THEN [api_base |-> "", api_key |-> ""]
    ELSE IF f = "partial" THEN [api_base |-> "http://a", api_key |-> ""]
    ELSE IF f = "mijia_A" THEN [api_base |-> "http://a", api_key |-> "key-a"]
    ELSE [api_base |-> "http://b", api_key |-> "key-b"]

\* The closure of get_or_init: None unless api_base and api_key are both set.
CacheValue(mijia) ==
    IF mijia.api_base = "" \/ mijia.api_key = "" THEN None
    ELSE Some(<<mijia.api_base, mijia.api_key>>)

\* cached.as_ref().cloned().ok_or_else(|| "Mijia API not configured")
ConfigResult(opt) ==
    IF opt = None THEN [ok |-> FALSE, pair |-> <<>>, error |-> "Mijia API not configured"]
    ELSE [ok |-> TRUE, pair |-> opt[1], error |-> ""]

\* Another process (the user's editor) creates, rewrites or removes the file.
FileChanges ==
    /\ \E f \in FileStates \ {config.file} : config' = [config EXCEPT !.file = f]
    /\ UNCHANGED <<stats, tray, thread, key, calc, clipboard, window, ui, pc, image, arg, retry_count, history, last, ret, trace>>

\* Mutant: a call that finds the cell empty runs the closure even while
\* another call is running it.
GetConfigEnterRacing(c) ==
    /\ config.at[c] = "idle"
    /\ IF config.cached.set
       THEN config' = [config EXCEPT !.at[c] = "returned",
                                     !.got[c] = ConfigResult(config.cached.value)]
       ELSE config' = [config EXCEPT !.at[c] = "loading", !.loader = c]
    /\ UNCHANGED <<stats, tray, thread, key, calc, clipboard, window, ui, pc, image, arg, retry_count, history, last, ret, trace>>

\* CACHED.get_or_init(..): a set cell is returned as it is; an empty cell is
\* initialized by one caller while the others block.
GetConfigEnter(c) ==
    /\ config.at[c] = "idle"
    /\ IF config.cached.set
       THEN config' = [config EXCEPT !.at[c] = "returned",
                                     !.got[c] = ConfigResult(config.cached.value)]
       ELSE IF config.loader = 0
       THEN config' = [config EXCEPT !.at[c] = "loading", !.loader = c]
       ELSE config' = [config EXCEPT !.at[c] = "blocked"]
    /\ UNCHANGED <<stats, tray, thread, key, calc, clipboard, window, ui, pc, image, arg, retry_count, history, last, ret, trace>>

\* The closure runs: load_config() reads the file, the cell is set, get_config returns.
GetConfigLoad(c) ==
    /\ config.at[c] = "loading"
    /\ \E readable \in BOOLEAN :
         LET value == CacheValue(load_config(config.file, readable))
         IN  config' = [config EXCEPT
                 !.cached = [set |-> TRUE, value |-> value],
                 !.loader = 0,
                 !.loaded = @ \cup {c},
                 !.at[c] = "returned",
                 !.got[c] = ConfigResult(value)]
    /\ UNCHANGED <<stats, tray, thread, key, calc, clipboard, window, ui, pc, image, arg, retry_count, history, last, ret, trace>>

\* A call blocked in get_or_init goes on once the cell is set.
GetConfigWake(c) ==
    /\ config.at[c] = "blocked"
    /\ config.cached.set
    /\ config' = [config EXCEPT !.at[c] = "returned",
                                !.got[c] = ConfigResult(config.cached.value)]
    /\ UNCHANGED <<stats, tray, thread, key, calc, clipboard, window, ui, pc, image, arg, retry_count, history, last, ret, trace>>

\* The caller is done with the result; it can call get_config again.
GetConfigDone(c) ==
    /\ config.at[c] = "returned"
    /\ config' = [config EXCEPT !.at[c] = "idle"]
    /\ UNCHANGED <<stats, tray, thread, key, calc, clipboard, window, ui, pc, image, arg, retry_count, history, last, ret, trace>>

\* init_config: if config_path.exists() { return Ok("Config already exists ..") }
InitConfigCheck ==
    /\ config.init.at = "idle"
    /\ config' = [config EXCEPT !.init =
           IF config.file # "missing"
           THEN [at |-> "returned", result |-> "Config already exists", found |-> @.found]
           ELSE [at |-> "create_dir", result |-> "pending", found |-> @.found]]
    /\ UNCHANGED <<stats, tray, thread, key, calc, clipboard, window, ui, pc, image, arg, retry_count, history, last, ret, trace>>

\* fs::create_dir_all(parent).map_err(..)?
InitConfigCreateDir ==
    /\ config.init.at = "create_dir"
    /\ \E ok \in BOOLEAN :
         config' = [config EXCEPT !.init =
             IF ok THEN [@ EXCEPT !.at = "write"]
             ELSE [@ EXCEPT !.at = "returned", !.result = "Failed to create config dir"]]
    /\ UNCHANGED <<stats, tray, thread, key, calc, clipboard, window, ui, pc, image, arg, retry_count, history, last, ret, trace>>

\* fs::write(&config_path, default_config).map_err(..)?; Ok("Config created ..")
\* fs::write replaces whatever is at the path; found: what it replaced.
InitConfigWrite ==
    /\ config.init.at = "write"
    /\ \E ok \in BOOLEAN :
         config' = [config EXCEPT
             !.file = IF ok THEN "default" ELSE @,
             !.init = IF ok
                      THEN [at |-> "returned", result |-> "Config created", found |-> config.file]
                      ELSE [@ EXCEPT !.at = "returned", !.result = "Failed to write config"]]
    /\ UNCHANGED <<stats, tray, thread, key, calc, clipboard, window, ui, pc, image, arg, retry_count, history, last, ret, trace>>

\* The frontend has the result; it can call init_config again.
InitConfigDone ==
    /\ config.init.at = "returned"
    /\ config' = [config EXCEPT !.init.at = "idle"]
    /\ UNCHANGED <<stats, tray, thread, key, calc, clipboard, window, ui, pc, image, arg, retry_count, history, last, ret, trace>>

\* The config file in any state at start.
InitConfig ==
    /\ \E f \in FileStates : config = NoConfig(f)
    /\ stats = NoStats
    /\ tray = NoTray
    /\ thread = [r \in Runs |-> "none"]
    /\ key = "up"
    /\ calc = NoCall
    /\ clipboard = NoImage
    /\ window = "visible"
    /\ ui = <<>>
    /\ pc = [r \in Runs |-> IF r \in Solo THEN "idle" ELSE "unused"]
    /\ image = [r \in Runs |-> NoImage]
    /\ arg = [r \in Runs |-> NoArg]
    /\ retry_count = [r \in Runs |-> 0]
    /\ history = [r \in Runs |-> <<>>]
    /\ last = [r \in Runs |-> NoResponse]
    /\ ret = [r \in Runs |-> Pending]
    /\ trace = [r \in Runs |-> <<>>]

NextConfig ==
    \/ FileChanges
    \/ \E c \in ConfigCallers : GetConfigEnter(c)
    \/ \E c \in ConfigCallers : GetConfigLoad(c)
    \/ \E c \in ConfigCallers : GetConfigWake(c)
    \/ \E c \in ConfigCallers : GetConfigDone(c)
    \/ InitConfigCheck
    \/ InitConfigCreateDir
    \/ InitConfigWrite
    \/ InitConfigDone

SpecConfig == InitConfig /\ [][NextConfig]_vars

\* ------------------------------------------- window events and the tray

\* The main window is created with the application and shown.
InitWindow ==
    /\ config = NoConfig("missing")
    /\ stats = NoStats
    /\ tray = NoTray
    /\ thread = [r \in Runs |-> "none"]
    /\ key = "up"
    /\ calc = NoCall
    /\ clipboard \in ClipboardContents
    /\ window = "visible"
    /\ ui = <<>>
    /\ pc = [r \in Runs |-> IF r \in Solo THEN "idle" ELSE "unused"]
    /\ image = [r \in Runs |-> NoImage]
    /\ arg = [r \in Runs |-> NoArg]
    /\ retry_count = [r \in Runs |-> 0]
    /\ history = [r \in Runs |-> <<>>]
    /\ last = [r \in Runs |-> NoResponse]
    /\ ret = [r \in Runs |-> Pending]
    /\ trace = [r \in Runs |-> <<>>]

\* Mutant: the close request goes through and the window is destroyed.
CloseRequestedCloses ==
    /\ window # "absent"
    /\ window' = "absent"
    /\ UNCHANGED <<config, stats, tray, thread, key, calc, clipboard, ui, pc, image, arg, retry_count, history, last, ret, trace>>

\* WindowEvent::CloseRequested { api, .. } => { let _ = window.hide(); api.prevent_close(); }
\* The event comes from an existing window.
CloseRequested ==
    /\ window # "absent"
    /\ window' = "hidden"
    /\ UNCHANGED <<config, stats, tray, thread, key, calc, clipboard, ui, pc, image, arg, retry_count, history, last, ret, trace>>

\* on_tray_icon_event, left button up:
\* if let Some(window) = app.get_webview_window("main") { show(); set_focus(); }
TrayClick ==
    /\ window' = IF window # "absent" THEN "visible" ELSE window
    /\ UNCHANGED <<config, stats, tray, thread, key, calc, clipboard, ui, pc, image, arg, retry_count, history, last, ret, trace>>

\* on_menu_event: "show" shows and focuses the window, any other id but "quit"
\* does nothing. "quit" calls app.exit(0), which ends the process: no state
\* of the program follows it.
MenuEvent ==
    /\ \E id \in {"show", "other"} :
         window' = IF id = "show" /\ window # "absent" THEN "visible" ELSE window
    /\ UNCHANGED <<config, stats, tray, thread, key, calc, clipboard, ui, pc, image, arg, retry_count, history, last, ret, trace>>

NextWindow ==
    \/ CloseRequested
    \/ TrayClick
    \/ MenuEvent
    \/ UserCopy
    \/ \E r \in Runs : Pressed(r)
    \/ Released
    \/ \E r \in Runs : WorkerNoWindow(r)

SpecWindow == InitWindow /\ [][NextWindow]_vars

\* ------------------------------------------- the pure functions on their own

\* Largest width and height of the raw images handed to rgba_to_png on its own.
MaxDim == 2
\* Byte counts 0..MaxSmallSize are handed to format_size, and the ones below.
MaxSmallSize == 2100

\* Raw images of every small shape, with buffers shorter than, equal to and
\* longer than width * height * 4.
RawImages ==
    { [has |-> TRUE, width |-> w, height |-> h, len |-> l] :
        w \in 0..MaxDim, h \in 0..MaxDim, l \in 0..(4 * MaxDim * MaxDim + 4) }

\* Byte counts around the unit thresholds of format_size.
SizeInputs ==
    (0..MaxSmallSize) \cup
    { 1024 * 1024 - 1, 1024 * 1024, 1024 * 1024 + 1, 1024 * 1024 + 52429,
      3 * 1024 * 1024, 10 * 1024 * 1024 - 1, 10 * 1024 * 1024 }

InitPure ==
    /\ config = NoConfig("missing")
    /\ stats = NoStats
    /\ tray = NoTray
    /\ thread = [r \in Runs |-> "none"]
    /\ key = "up"
    /\ calc = NoCall
    /\ clipboard = NoImage
    /\ window = "hidden"
    /\ ui = <<>>
    /\ pc = [r \in Runs |-> "unused"]
    /\ image = [r \in Runs |-> NoImage]
    /\ arg = [r \in Runs |-> NoArg]
    /\ retry_count = [r \in Runs |-> 0]
    /\ history = [r \in Runs |-> <<>>]
    /\ last = [r \in Runs |-> NoResponse]
    /\ ret = [r \in Runs |-> Pending]
    /\ trace = [r \in Runs |-> <<>>]

\* One call rgba_to_png(&data, width, height).
CallRgbaToPng ==
    /\ calc = NoCall
    /\ \E img \in RawImages :
          calc' = [op |-> "rgba_to_png", in |-> img, out |-> rgba_to_png(img)]
    /\ UNCHANGED <<config, stats, tray, thread, key, clipboard, window, ui, pc, image, arg, retry_count, history, last, ret, trace>>

\* One call format_size(bytes).
CallFormatSize ==
    /\ calc = NoCall
    /\ \E bytes \in SizeInputs :
          calc' = [op |-> "format_size", in |-> bytes, out |-> format_size(bytes)]
    /\ UNCHANGED <<config, stats, tray, thread, key, clipboard, window, ui, pc, image, arg, retry_count, history, last, ret, trace>>

\* The caller has taken the result.
CallReturns ==
    /\ calc # NoCall
    /\ calc' = NoCall
    /\ UNCHANGED <<config, stats, tray, thread, key, clipboard, window, ui, pc, image, arg, retry_count, history, last, ret, trace>>

NextPure ==
    \/ CallRgbaToPng
    \/ CallFormatSize
    \/ CallReturns

SpecPure == InitPure /\ [][NextPure]_vars

\* ------------------------------------------- the status-bar text and its colors

\* Strings are sequences of characters; every character here is one UTF-16 unit.
DigitChar(d) == <<"0", "1", "2", "3", "4", "5", "6", "7", "8", "9">>[d + 1]

\* format!("{}", n) for an unsigned integer.
RECURSIVE Digits(_)
Digits(n) == IF n < 10 THEN <<DigitChar(n)>> ELSE Append(Digits(n \div 10), DigitChar(n % 10))

\* The {:>w} of format!: spaces on the left up to width w, nothing cut.
RECURSIVE PadLeft(_, _)
PadLeft(s, w) == IF Len(s) >= w THEN s ELSE PadLeft(<<" ">> \o s, w)

\* format!("{:.0}%", cpu), cpu given in tenths of a percent: the nearest
\* integer, ties to even.
cpu_str(tenths) ==
    LET q == tenths \div 10
        rem == tenths % 10
    IN  Digits(IF rem > 5 \/ (rem = 5 /\ q % 2 = 1) THEN q + 1 ELSE q) \o <<"%">>

\* format_speed(bytes) -> String
format_speed(bytes) ==
    IF bytes < 1024
    THEN PadLeft(Digits(bytes), 3) \o <<" ", "B">>
    ELSE IF bytes < 1024 * 1024
    THEN PadLeft(Digits(bytes \div 1024), 3) \o <<" ", "K", "/", "s">>
    ELSE LET t == OneDecimal(bytes, 1024 * 1024)
         IN  PadLeft(Digits(t \div 10) \o <<".">> \o Digits(t % 10), 3)
                 \o <<" ", "M", "/", "s">>

\* NSRange::new(location, length)
NSRange(location, length) == [location |-> location, length |-> length]

\* Mutant: the download range starts right after the upload range.
StatusBarRangesNoSep(cpu_len, sep1_len, up_len, sep2_len, down_len) ==
    LET up_start == cpu_len + sep1_len
        down_start == up_start + up_len
    IN  [cpu |-> NSRange(0, cpu_len),
         up |-> NSRange(up_start, up_len),
         down |-> NSRange(down_start, down_len)]

\* cpu_range, up_range and down_range of update_status_bar.
StatusBarRanges(cpu_len, sep1_len, up_len, sep2_len, down_len) ==
    LET up_start == cpu_len + sep1_len
        down_start == up_start + up_len + sep2_len
    IN  [cpu |-> NSRange(0, cpu_len),
         up |-> NSRange(up_start, up_len),
         down |-> NSRange(down_start, down_len)]

\* update_status_bar(app, cpu, up, down): the full text and the three ranges
\* that get a color.
StatusBarText(cpu, up, down) ==
    LET c == cpu_str(cpu)
        u == format_speed(up)
        d == format_speed(down)
        sep1 == <<",">>
        sep2 == <<",">>
    IN  [text |-> c \o sep1 \o u \o sep2 \o d,
         ranges |-> StatusBarRanges(Len(c), Len(sep1), Len(u), Len(sep2), Len(d))]

\* Mutant: a rate of exactly 10 MB/s is red.
get_network_color_inclusive(bytes_per_sec) ==
    IF bytes_per_sec >= 10 * (1024 * 1024) THEN "red"
    ELSE IF bytes_per_sec >= 5 * (1024 * 1024) THEN "orange"
    ELSE "controlText"

\* get_network_color(bytes_per_sec): bytes_per_sec as f64 / (1024.0 * 1024.0)
\* is exact (a division by a power of two), so mb_per_sec > 10.0 compares the
\* byte rate with 10 * 1024 * 1024.
get_network_color(bytes_per_sec) ==
    IF bytes_per_sec > 10 * (1024 * 1024) THEN "red"
    ELSE IF bytes_per_sec >= 5 * (1024 * 1024) THEN "orange"
    ELSE "controlText"

\* CPU usages handed to update_status_bar, in tenths of a percent.
CpuInputs == {0, 4, 5, 15, 25, 99, 100, 499, 500, 995, 1000}

\* Byte rates around the unit thresholds of format_speed and the color bands.
RateInputs ==
    { 0, 9, 10, 99, 100, 999, 1000, 1023, 1024, 10 * 1024, 1000 * 1024, 1024 * 1024 - 1,
      1024 * 1024, 5 * 1024 * 1024 - 1, 5 * 1024 * 1024, 5 * 1024 * 1024 + 1,
      10 * 1024 * 1024 - 1, 10 * 1024 * 1024, 10 * 1024 * 1024 + 1,
      100 * 1024 * 1024, 200 * 1024 * 1024 }

\* One call update_status_bar(&app, cpu, up, down), up to the closure.
CallUpdateStatusBar ==
    /\ calc = NoCall
    /\ \E cpu \in CpuInputs, up \in RateInputs, down \in RateInputs :
          calc' = [op |-> "update_status_bar", in |-> <<cpu, up, down>>,
                   out |-> StatusBarText(cpu, up, down)]
    /\ UNCHANGED <<config, stats, tray, thread, key, clipboard, window, ui, pc, image, arg, retry_count, history, last, ret, trace>>

\* One call get_network_color(bytes_per_sec).
CallGetNetworkColor ==
    /\ calc = NoCall
    /\ \E rate \in RateInputs :
          calc' = [op |-> "get_network_color", in |-> rate, out |-> get_network_color(rate)]
    /\ UNCHANGED <<config, stats, tray, thread, key, clipboard, window, ui, pc, image, arg, retry_count, history, last, ret, trace>>

NextBar ==
    \/ CallUpdateStatusBar
    \/ CallGetNetworkColor
    \/ CallReturns

SpecBar == InitPure /\ [][NextBar]_vars

\* ------------------------------------------------------------------ properties

\* Positions in ui of the calls ev of run r.
UiIndex(r, ev) == { i \in DOMAIN ui : ui[i].run = r /\ ui[i].ev = ev }

\* The call chain of run r has returned to the handler.
ChainReturned(r) == pc[r] \in {"notify", "switch", "result", "done"} /\ arg[r] # NoArg

\* The PUTs and the 1-second sleeps of run r, in order.
PutsAndSleeps(r) == SelectSeq(trace[r], LAMBDA e : e \in {"put", "sleep_1s"})

\* UploadResult: success=true implies url present and error absent;
\* success=false implies error present.
WellFormed(u) ==
    /\ u.success => (u.url # None /\ u.error = None)
    /\ ~u.success => u.error # None

\* C1: one call chain started at attempt 0 issues at most 3 HTTP PUT requests,
\* whatever mix of timeouts, connection errors, 5xx and 429 it meets.
C1_AtMostThreeRequests == \A r \in Runs : Requests(r) <= 3

\* C2: every run spawned by a hotkey press eventually reaches Done.
C2_EveryRunTerminates == \A r \in Runs : (pc[r] = "clipboard_new") ~> (pc[r] = "done")

\* C3: every run emits exactly one "upload-result" event: never two, and one
\* by the time the run is done, on every outcome.
C3_ExactlyOneResult ==
    \A r \in Runs :
        /\ Cardinality(UiIndex(r, "upload-result")) <= 1
        /\ pc[r] = "done" => Cardinality(UiIndex(r, "upload-result")) = 1

\* C4: every run that ends in failure has produced an outcome with
\* success=false and an error message and has done the whole choreography:
\* show and focus, "switch-to-upload", "upload-result".
C4_FailureStillNotifies ==
    \A r \in Runs :
        (pc[r] = "done" /\ ~ret[r].ok) =>
            /\ UiIndex(r, "show") # {}
            /\ UiIndex(r, "set_focus") # {}
            /\ UiIndex(r, "switch-to-upload") # {}
            /\ \E i \in UiIndex(r, "upload-result") :
                   /\ ~ui[i].payload[1].success
                   /\ ui[i].payload[1].error # None

\* C5: in every run the UI steps come in the order show/focus, then
\* "switch-to-upload", then "upload-result".
C5_FixedUiOrder ==
    \A r \in Runs :
        /\ \A i \in UiIndex(r, "show") : \A j \in UiIndex(r, "switch-to-upload") : i < j
        /\ \A i \in UiIndex(r, "show") : \A j \in UiIndex(r, "upload-result") : i < j
        /\ \A i \in UiIndex(r, "switch-to-upload") :
               \A j \in UiIndex(r, "upload-result") : i < j

\* C6: every UploadResult returned by the upload client or emitted as
\* "upload-result" is well formed (success => url and no error; failure => error).
C6_ResultWellFormed ==
    /\ \A r \in Runs : ret[r].ok => WellFormed(ret[r].value)
    /\ \A i \in DOMAIN ui : ui[i].ev = "upload-result" => WellFormed(ui[i].payload[1])

C6_Witness ==
    \E i \in DOMAIN ui :
        /\ ui[i].ev = "upload-result"
        /\ ui[i].payload[1].success
        /\ ret[ui[i].run].ok

\* Every request the call chain of run r has sent was answered with 503.
Only503(r) ==
    /\ Requests(r) > 0
    /\ \A i \in DOMAIN history[r] :
           history[r][i].resp.transport = "ok" /\ history[r][i].resp.status = 503

C8_TransportRetryBelowTwo ==
    \A r \in Runs :
        (pc[r] = "retry_sleep" /\ last[r].transport \in {"timeout", "connect"}) =>
            retry_count[r] < 2

\* A status that is neither success, nor 5xx, nor 429.
OtherStatus(s) == ~is_success(s) /\ ~is_server_error(s) /\ s # 429

\* C9: a non-success status that is neither 5xx nor 429 ends the call at once,
\* at any attempt, with the error carrying that status; as the first response
\* it leaves exactly 1 request made.
C9_OtherStatusFailsAtOnce ==
    \A r \in Runs :
        (last[r].transport = "ok" /\ OtherStatus(last[r].status)) =>
            /\ pc[r] \in {"notify", "switch", "result", "done"}
            /\ ret[r] = Err(Msg("Upload failed with status", last[r].status, last[r].body))
            /\ retry_count[r] = 0 => Requests(r) = 1

C9_Witness ==
    \E r \in Runs :
        /\ last[r].transport = "ok" /\ last[r].status = 404
        /\ retry_count[r] = 0
        /\ Requests(r) = 1
        /\ pc[r] = "done"

\* C10: a 2xx response whose body is not JSON, or is JSON without a string
\* `url`, ends the call with a protocol error at any attempt: it is the last
\* request of the chain.
C10_ProtocolErrorNotRetried ==
    \A r \in Runs :
        (/\ last[r].transport = "ok"
         /\ last[r].status \in 200..299
         /\ last[r].body \in {"not_json", "no_url", "url_not_string"}) =>
            /\ pc[r] \in {"notify", "switch", "result", "done"}
            /\ ~ret[r].ok
            /\ ret[r].value.kind =
                   IF last[r].body = "not_json" THEN "Failed to parse JSON"
                   ELSE "No 'url' field in response"

C10_Witness ==
    \E r \in Runs :
        /\ last[r].transport = "ok" /\ last[r].status = 200
        /\ last[r].body = "url_not_string"
        /\ retry_count[r] = 1
        /\ Requests(r) = 2
        /\ pc[r] = "done"

\* A response the server sent with status 5xx or 429.
ServerBusy(resp) ==
    resp.transport = "ok" /\ (resp.status \in 500..599 \/ resp.status = 429)

NotSpawned(r) == pc[r] \in {"idle", "unused"}

\* C12: only the "pressed" transition of the hotkey starts a run. A pressed
\* event spawns exactly one worker and the handler returns with that worker
\* still at its first step; a released event spawns no worker and makes no UI
\* call; and no worker is spawned by any other step.
C12_OnlyPressedStartsRun ==
    [][ /\ (key = "up" /\ key' = "down") =>
              /\ \E r \in Runs :
                     /\ NotSpawned(r) /\ pc'[r] = "clipboard_new"
                     /\ \A q \in Runs \ {r} : pc'[q] = pc[q]
              /\ ui' = ui /\ trace' = trace
        /\ (key = "down" /\ key' = "up") =>
              /\ pc' = pc
              /\ ui' = ui /\ trace' = trace
        /\ (\E r \in Runs : NotSpawned(r) /\ ~NotSpawned(r)') =>
              (key = "up" /\ key' = "down")
      ]_vars

C12_Witness ==
    /\ key = "up"
    /\ pc[1] = "clipboard_new"
    /\ trace[1] = <<>>
    /\ pc[2] = "unused"

\* The clipboard read of run r is over and gave no image: Clipboard::new()
\* failed, or get_image() returned an error.
ClipboardReadFailed(r) ==
    /\ "clipboard_new" \in { trace[r][i] : i \in DOMAIN trace[r] }
    /\ "encode" \notin { trace[r][i] : i \in DOMAIN trace[r] }
    /\ pc[r] \notin {"get_image", "encode"}

\* C13: a run whose clipboard read failed (clipboard not opened, or no image
\* in it) encodes nothing, sends no HTTP request, holds a failure outcome with
\* the clipboard error message, and has emitted that outcome by the time it is done.
C13_ClipboardFailureNotifies ==
    \A r \in Runs :
        ClipboardReadFailed(r) =>
            /\ Requests(r) = 0
            /\ arg[r] = NoArg
            /\ ~ret[r].ok
            /\ ret[r].value.kind \in {"No image in clipboard", "Failed to open clipboard"}
            /\ pc[r] = "done" =>
                   \E i \in UiIndex(r, "upload-result") :
                       ui[i].payload = Some(FailureResult(ret[r].value))

\* Run r read the clipboard and found no image in it.
NoImageRead(r) ==
    /\ "get_image" \in { trace[r][i] : i \in DOMAIN trace[r] }
    /\ ~image[r].has

\* C14: when the clipboard holds no image, the run's outcome is
\* {success:false, error:"No image in clipboard"} with no url, filename,
\* size or duration, and by the time the run is done it has emitted "switch-to-upload"
\* to the main window and "upload-result" carrying that outcome.
C14_NoImageOutcome ==
    \A r \in Runs :
        NoImageRead(r) =>
            /\ ret[r] = Err(Msg("No image in clipboard", 0, ""))
            /\ Outcome(r) = [success |-> FALSE, url |-> None, filename |-> None,
                             size |-> None, duration |-> None,
                             error |-> Some(Msg("No image in clipboard", 0, ""))]
            /\ (pc[r] = "done" /\ window # "absent") =>
                   /\ UiIndex(r, "switch-to-upload") # {}
                   /\ \E i \in UiIndex(r, "upload-result") :
                          ui[i].payload = Some(Outcome(r))

C14_Witness ==
    \E r \in Runs :
        /\ NoImageRead(r)
        /\ pc[r] = "done"
        /\ Cardinality(UiIndex(r, "switch-to-upload")) = 1
        /\ Cardinality(UiIndex(r, "upload-result")) = 1

\* The notification steps of run r as they were taken: UI calls and the 50 ms waits.
NotifySteps(r) ==
    SelectSeq(trace[r], LAMBDA e : e \in {"show", "set_focus", "sleep_50ms",
                                          "switch-to-upload", "upload-result"})

\* Run r has tried to encode its image and rgba_to_png returned an error.
EncodeFailed(r) ==
    /\ "encode" \in { trace[r][i] : i \in DOMAIN trace[r] }
    /\ ~rgba_to_png(image[r]).ok

\* C15: a run whose encode failed holds a failure outcome carrying the codec
\* error message, sends no HTTP request, and by the time it is done has taken
\* the notification steps of the other branches: show, focus, wait,
\* "switch-to-upload", wait, "upload-result" with that outcome.
C15_EncodeFailureNotifies ==
    \A r \in Runs :
        EncodeFailed(r) =>
            /\ Requests(r) = 0
            /\ ret[r] = Err(Msg("Failed to convert image", 0, rgba_to_png(image[r]).value.kind))
            /\ pc[r] = "done" =>
                   /\ NotifySteps(r) = <<"show", "set_focus", "sleep_50ms",
                                         "switch-to-upload", "sleep_50ms", "upload-result">>
                   /\ \E i \in UiIndex(r, "upload-result") :
                          ui[i].payload = Some(FailureResult(ret[r].value))

\* C16: rgba_to_png rejects every raw image whose pixel buffer length differs
\* from width*height*4, shorter or longer, and returns no PNG bytes for it.
C16_RejectsEveryMismatch ==
    (calc.op = "rgba_to_png" /\ calc.in.len # calc.in.width * calc.in.height * 4) =>
        ~calc.out.ok

\* Everything the hotkey handler and its workers write.
pipeline == <<key, window, ui, pc, image, arg, retry_count, history, last, ret, trace>>

\* C17: the pipeline never changes the OS clipboard: every step of the hotkey
\* handler or of a worker leaves the clipboard contents as they were, so the
\* only steps that change them are the user's.
C17_ClipboardOnlyRead == [][ pipeline' # pipeline => clipboard' = clipboard ]_vars

C17_Witness ==
    \E r \in Runs :
        /\ pc[r] = "done"
        /\ image[r].has
        /\ clipboard = image[r]
        /\ Requests(r) > 0

\* C18: on a 2xx response whose JSON body has a string `url`, the call returns
\* success=true, url = the base URL followed by the raw `url` value as it came,
\* filename = `originalFileName` when that is a string and "image.png"
\* otherwise, and no error.
C18_SuccessOutcome ==
    \A r \in Runs :
        (/\ last[r].transport = "ok"
         /\ last[r].status \in 200..299
         /\ JsonParses(last[r].body)
         /\ JsonUrl(last[r].body) # None) =>
            /\ ChainReturned(r)
            /\ ret[r].ok
            /\ ret[r].value.success
            /\ ret[r].value.url = Some("http://REDACTED_HOST:38080" \o JsonUrl(last[r].body)[1])
            /\ ret[r].value.filename =
                   Some(IF last[r].body = "url_and_name" THEN "shot.png" ELSE "image.png")
            /\ ret[r].value.error = None
            /\ pc[r] = "done" =>
                   \E i \in UiIndex(r, "upload-result") : ui[i].payload = Some(ret[r].value)

C18_Witness ==
    \E r \in Runs : \E i \in UiIndex(r, "upload-result") :
        /\ last[r].status = 200
        /\ last[r].body = "url_only"
        /\ Requests(r) = 2
        /\ ui[i].payload[1].url = Some("http://REDACTED_HOST:38080/img/a%20b.png")
        /\ ui[i].payload[1].filename = Some("image.png")
        /\ pc[r] = "done"

\* tenths is n/d written with one decimal: the multiple of 0.1 nearest to n/d.
NearestTenth(tenths, n, d) ==
    /\ 2 * (10 * n - d * tenths) <= d
    /\ 2 * (d * tenths - 10 * n) <= d

\* C19: format_size picks its unit by the byte count n: n < 1024 gives "<n> B",
\* 1024 <= n < 1024*1024 gives n/1024 with one decimal and " KB", larger n
\* gives n/1024/1024 with one decimal and " MB"; 500 gives "500 B", 2048 gives
\* "2.0 KB" and 3*1024*1024 gives "3.0 MB".
C19_FormatSizeUnits ==
    calc.op = "format_size" =>
        LET n == calc.in
            out == calc.out
        IN  /\ n < 1024 => out = [n |-> n, decimals |-> 0, unit |-> "B"]
            /\ (1024 <= n /\ n < 1024 * 1024) =>
                   /\ out.unit = "KB" /\ out.decimals = 1
                   /\ NearestTenth(out.n, n, 1024)
            /\ n >= 1024 * 1024 =>
                   /\ out.unit = "MB" /\ out.decimals = 1
                   /\ NearestTenth(out.n, n, 1024 * 1024)
            /\ n = 500 => out = [n |-> 500, decimals |-> 0, unit |-> "B"]
            /\ n = 2048 => out = [n |-> 20, decimals |-> 1, unit |-> "KB"]
            /\ n = 3 * 1024 * 1024 => out = [n |-> 30, decimals |-> 1, unit |-> "MB"]

C19_Witness ==
    /\ calc.op = "format_size"
    /\ calc.in = 1024 * 1024 - 1
    /\ calc.out = [n |-> 10240, decimals |-> 1, unit |-> "KB"]

\* The stage a recorded step belongs to: 1 clipboard read, 2 encode, 3 upload
\* (requests and the sleeps between them), 4 notification.
Stage(e) ==
    IF e \in {"clipboard_new", "get_image"} THEN 1
    ELSE IF e \in {"encode", "debug_write_ok", "debug_write_failed"} THEN 2
    ELSE IF e \in {"put", "sleep_1s"} THEN 3
    ELSE 4

\* The steps run r has taken, as a set.
Taken(r) == { trace[r][i] : i \in DOMAIN trace[r] }

\* C20: within one run the stages go one way: the clipboard read comes before
\* the encode, the encode before the first HTTP request, every HTTP request
\* before every UI step of the run, no stage is entered without the one before
\* it, and a run that is done takes no further step.
C20_StagesOneWay ==
    \A r \in Runs :
        /\ \A i, j \in DOMAIN trace[r] :
               i < j => Stage(trace[r][i]) <= Stage(trace[r][j])
        /\ "encode" \in Taken(r) => "get_image" \in Taken(r)
        /\ "put" \in Taken(r) => "encode" \in Taken(r)
        /\ Requests(r) > 0 => "put" \in Taken(r)
        /\ (\E i \in DOMAIN ui : ui[i].run = r) => "get_image" \in Taken(r)
        /\ pc[r] = "done" => ~ENABLED Worker(r)

C20_Witness ==
    \E r \in Runs :
        /\ pc[r] = "done"
        /\ Requests(r) = 2
        /\ ret[r].ok
        /\ {"get_image", "encode", "put", "sleep_1s", "show", "switch-to-upload",
            "upload-result"} \subseteq Taken(r)

\* Positions in the notification steps of run r of the step e.
StepIndex(r, e) == { i \in DOMAIN NotifySteps(r) : NotifySteps(r)[i] = e }

\* In the notification steps of run r a 50 ms wait lies between every step a
\* and every step b, and a comes first.
WaitBetween(r, a, b) ==
    \A i \in StepIndex(r, a) : \A j \in StepIndex(r, b) :
        /\ i < j
        /\ \E k \in StepIndex(r, "sleep_50ms") : i < k /\ k < j

\* C21: in every run a wait separates the window show request from
\* "switch-to-upload", and another wait separates "switch-to-upload" from
\* "upload-result", which comes last.
C21_WaitsBetweenUiSteps ==
    \A r \in Runs :
        /\ WaitBetween(r, "show", "switch-to-upload")
        /\ WaitBetween(r, "switch-to-upload", "upload-result")

\* The UI calls of run r that returned Err.
FailedCalls(r) == { i \in DOMAIN ui : ui[i].run = r /\ ~ui[i].ok }

\* C22: a UI call that fails during the notification (show, set_focus, emit of
\* "switch-to-upload", emit of "upload-result") is swallowed: the worker goes
\* on, and a run that has reached the notification ends having made every one
\* of the four calls exactly once, whichever of them failed.
C22_UiFailuresSwallowed ==
    \A r \in Runs :
        /\ pc[r] \in {"notify", "switch", "result", "convert_failed",
                      "convert_failed_window"} => ENABLED WorkerUi(r)
        /\ (pc[r] = "done" /\ "get_image" \in Taken(r)) =>
               \A ev \in {"show", "set_focus", "switch-to-upload", "upload-result"} :
                   Cardinality(UiIndex(r, ev)) = 1

C22_Witness ==
    \E r \in Runs :
        /\ pc[r] = "done"
        /\ ret[r].ok
        /\ Cardinality(FailedCalls(r)) = 4
        /\ ui[Len(ui)].ev = "upload-result"

\* Run r has a worker that has not finished.
InFlight(r) == pc[r] \notin {"idle", "unused", "done"}

\* What the worker of run r keeps for itself: its image, its payload, its
\* attempt counter, the requests it made and what it returned.
OwnState(r) == <<pc[r], image[r], arg[r], retry_count[r], history[r], last[r], ret[r], trace[r]>>

\* C23: runs are not serialized and keep independent retry state: a worker in
\* flight can always take its next step whatever the other run is doing, a
\* step of one run changes nothing the other run keeps for itself, and each
\* run gets its own three requests when the server keeps answering 503.
C23_RunsIndependent ==
    /\ [](\A r \in Runs : InFlight(r) => ENABLED WorkerPair(r))
    /\ [](\A r \in Runs :
            (ChainReturned(r) /\ Only503(r)
               /\ ret[r].value.kind = "Upload failed with status") => Requests(r) = 3)
    /\ [][\A r \in Runs :
            OwnState(r)' # OwnState(r) =>
                \A q \in Runs \ {r} : OwnState(q)' = OwnState(q)]_vars

C23_Witness ==
    /\ pc[1] = "upload" /\ retry_count[1] = 2
    /\ pc[2] = "upload" /\ retry_count[2] = 0
    /\ Requests(1) = 2 /\ Requests(2) = 0

\* C24: triggers are neither de-duplicated nor coalesced: a press that arrives
\* while an earlier run is in flight starts a second worker at its first step,
\* and every run that gets past opening the clipboard emits its own
\* "upload-result", in whatever order the two workers reach that step.
C24_NoCoalescing ==
    /\ [][ (key = "up" /\ key' = "down" /\ \E q \in Runs : InFlight(q)) =>
               \E r \in Runs :
                   /\ NotSpawned(r)
                   /\ pc'[r] = "clipboard_new" /\ trace'[r] = <<>> ]_vars
    /\ [](\A r \in Runs :
            (pc[r] = "done" /\ "get_image" \in Taken(r)) =>
                Cardinality(UiIndex(r, "upload-result")) = 1)

\* Run 1 was started first, and the result of run 2 is emitted first.
C24_Witness ==
    \E i, j \in DOMAIN ui :
        /\ i < j
        /\ ui[i].run = 2 /\ ui[i].ev = "upload-result"
        /\ ui[j].run = 1 /\ ui[j].ev = "upload-result"
        /\ \E k \in DOMAIN ui : k < i /\ ui[k].run = 1 /\ ui[k].ev = "show"

\* C25: the status-bar lock is held only inside one text-update closure on the
\* main thread: while it is held, no run executing on the holder's thread is
\* in a clipboard read, an encode, an HTTP request or a retry sleep, and the
\* holder is never an upload worker.
C25_StatusLockShort ==
    tray.lock # "free" =>
        /\ tray.lock = "main"
        /\ tray.main \in {"locked", "titled"}
        /\ \A r \in Runs :
               thread[r] = tray.lock =>
                   pc[r] \notin {"clipboard_new", "get_image", "encode", "convert_failed",
                                 "upload", "retry_sleep"}

\* The lock is held on the main thread while the hotkey worker sleeps between
\* two requests and after upload_image has run on the main thread.
C25_Witness ==
    /\ tray.lock = "main"
    /\ tray.main = "titled"
    /\ \E r \in Runs : thread[r] = "worker" /\ pc[r] = "retry_sleep"
    /\ \E r \in Runs : thread[r] = "main" /\ pc[r] = "done" /\ Requests(r) = 3

\* C26: no clipboard read, image encode or upload HTTP request executes on the
\* main thread: every run that has done one of them executes on a worker thread.
C26_BlockingOffMainThread ==
    \A r \in Runs :
        Taken(r) \cap {"clipboard_new", "get_image", "encode", "put"} # {} =>
            thread[r] = "worker"

\* The "upload-result" payloads run r has emitted.
ResultsOf(r) == { ui[i].payload : i \in UiIndex(r, "upload-result") }

\* C27: a failed write of the debug image file is only logged: the run goes on
\* to the upload with the bytes it encoded, and when it is done its outcome,
\* its notification steps and its "upload-result" payload equal those of a run
\* whose write succeeded on the same image and the same server answers.
C27_DebugWriteOnlyLogged ==
    /\ \A r \in Runs :
           "debug_write_failed" \in Taken(r) =>
               /\ arg[r] = DataUrl(rgba_to_png(image[r]).value)
               /\ pc[r] \in {"upload", "retry_sleep", "notify", "switch", "result", "done"}
               /\ pc[r] = "done" => ResultsOf(r) = {Some(Outcome(r))}
    /\ \A r, q \in Runs :
           (/\ "debug_write_failed" \in Taken(r) /\ "debug_write_ok" \in Taken(q)
            /\ pc[r] = "done" /\ pc[q] = "done"
            /\ image[r] = image[q]
            /\ history[r] = history[q] /\ retry_count[r] = retry_count[q]) =>
               /\ ret[r] = ret[q]
               /\ NotifySteps(r) = NotifySteps(q)
               /\ ResultsOf(r) = ResultsOf(q)

C27_Witness ==
    \E r, q \in Runs :
        /\ "debug_write_failed" \in Taken(r) /\ "debug_write_ok" \in Taken(q)
        /\ pc[r] = "done" /\ pc[q] = "done"
        /\ image[r] = image[q]
        /\ history[r] = history[q] /\ Requests(r) = 2
        /\ ret[r].ok /\ ret[q].ok

\* The errors of upload_image_with_retry raised before any request is sent.
PrepErrors ==
    {"Failed to decode base64", "Failed to create mime part", "Failed to create HTTP client"}

\* C28: a base64 decode failure, a MIME part failure and an HTTP client failure
\* are terminal on their first occurrence: the call that meets one returns the
\* error having sent no request (the last thing before it, if anything, is the
\* sleep of an earlier retry), a payload that is not base64 never leads to a
\* request, and every retry sleep follows a request directly: none of these
\* failures is retried.
C28_PrepFailuresTerminal ==
    \A r \in Runs :
        /\ (pc[r] = "retry_sleep" /\ Len(trace[r]) < MaxTrace) =>
               /\ PutsAndSleeps(r) # <<>>
               /\ PutsAndSleeps(r)[Len(PutsAndSleeps(r))] = "put"
        /\ (~ret[r].ok /\ ret[r].value.kind \in PrepErrors) =>
               /\ pc[r] \in {"notify", "switch", "result", "done"}
               /\ Len(trace[r]) < MaxTrace =>
                      \/ PutsAndSleeps(r) = <<>>
                      \/ PutsAndSleeps(r)[Len(PutsAndSleeps(r))] = "sleep_1s"
        /\ (arg[r] # NoArg /\ ~arg[r].valid /\ pc[r] \notin {"frontend", "pasted", "upload"}) =>
               /\ ret[r] = Err(Msg("Failed to decode base64", 0, ""))
               /\ Requests(r) = 0
               /\ PutsAndSleeps(r) = <<>>

C28_Witness ==
    \E r \in Runs :
        /\ pc[r] = "done"
        /\ ret[r] = Err(Msg("Failed to create mime part", 0, ""))
        /\ PutsAndSleeps(r) = <<"put", "sleep_1s">>
        /\ retry_count[r] = 1

\* C29: a transport error that is neither a timeout nor a connection error is
\* never retried: at any attempt counter it is the last request of the chain,
\* which returns the Network error.
C29_OtherTransportErrorFinal ==
    \A r \in Runs :
        /\ last[r].transport = "other" =>
               /\ pc[r] \in {"notify", "switch", "result", "done"}
               /\ ret[r] = Err(Msg("Network error", 0, "other"))
        /\ \A i \in DOMAIN history[r] :
               history[r][i].resp.transport = "other" => i = Requests(r)

C29_Witness ==
    \E r \in Runs :
        /\ pc[r] = "done"
        /\ Requests(r) = 2
        /\ retry_count[r] = 1
        /\ history[r][1].resp.transport = "connect"
        /\ history[r][2].resp.transport = "other"
        /\ ret[r] = Err(Msg("Network error", 0, "other"))

\* The calls of run r on the window handle: show, set_focus and the
\* "switch-to-upload" signal.
WindowCalls(r) ==
    { i \in DOMAIN ui : ui[i].run = r
                        /\ ui[i].ev \in {"show", "set_focus", "switch-to-upload"} }

\* C30: when the lookup of the main window finds none, a run makes no show or
\* focus request and emits no "switch-to-upload" signal; a run that reached the
\* notification of lines 516-569 (it read the clipboard and its encoding did
\* not fail) still emits its "upload-result" event, exactly once and with its
\* outcome, by the time it is done, after one 50 ms wait.
C30_ResultWithoutWindow ==
    window = "absent" =>
        \A r \in Runs :
            /\ WindowCalls(r) = {}
            /\ (pc[r] = "done" /\ "get_image" \in Taken(r) /\ ~EncodeFailed(r)) =>
                   /\ Cardinality(UiIndex(r, "upload-result")) = 1
                   /\ ResultsOf(r) = {Some(Outcome(r))}
                   /\ NotifySteps(r) = <<"sleep_50ms", "upload-result">>
            /\ pc[r] = "notify" => ENABLED NotifyWindowWith(r, {TRUE})
            /\ pc[r] = "result" => ENABLED EmitResultWith(r, {TRUE})

C30_Witness ==
    /\ window = "absent"
    /\ \E r \in Runs :
           /\ pc[r] = "done"
           /\ Requests(r) >= 1
           /\ Outcome(r).success
           /\ WindowCalls(r) = {}
           /\ Cardinality(UiIndex(r, "upload-result")) = 1

\* C31: a close request only hides the main window: in every state reached by
\* close requests, tray clicks, menu events and runs the main window exists,
\* and a run that has passed the window lookup of its notification found the
\* window and made its show request.
C31_CloseOnlyHides ==
    /\ window \in {"hidden", "visible"}
    /\ \A r \in Runs :
           (pc[r] \in {"switch", "result", "done"} /\ "get_image" \in Taken(r)) =>
               /\ Cardinality(UiIndex(r, "show")) = 1
               /\ Cardinality(UiIndex(r, "set_focus")) = 1

C31_Witness ==
    /\ window = "hidden"
    /\ \E r \in Runs :
           /\ pc[r] = "done"
           /\ UiIndex(r, "show") # {}
           /\ \A i \in UiIndex(r, "show") : ui[i].ok

\* C32 as stated: in every state in which the native status item has just been
\* touched (created and titled by setup, stored, or titled by an update
\* closure) the main thread holds the status_item mutex.
C32_TouchedOnlyUnderLock ==
    tray.main \in {"created", "storing", "titled"} => tray.lock = "main"

\* C32: the status item is created and given its first title inside setup()
\* with no lock held, before any other thread can reach it; from then on it is
\* only touched on the main thread under the status_item mutex: the store and
\* every update closure hold the lock, an update closure always finds the
\* stored item, none is queued before the store, and no worker of an upload
\* run ever holds the lock.
C32_StatusItemGuarded ==
    /\ tray.main \in {"storing", "locked", "titled"} => tray.lock = "main"
    /\ tray.main \in {"locked", "titled"} => tray.item = "stored"
    /\ tray.main # "skipped"
    /\ tray.queued > 0 => tray.item = "stored"
    /\ tray.loop => tray.item = "stored"
    /\ tray.main = "created" => tray.lock = "free" /\ tray.item = "local" /\ ~tray.loop
    /\ tray.lock \in {"free", "main"}
    /\ tray.lock = "main" => tray.main \in {"storing", "locked", "titled"}

C32_Witness ==
    /\ tray.main = "titled"
    /\ tray.lock = "main"
    /\ tray.item = "stored"
    /\ \E r \in Runs : pc[r] = "upload" /\ thread[r] = "worker"

\* The mutex a call of get_system_stats is waiting for ("none": it waits for none).
Wanted(c) ==
    IF stats.at[c] = "lock_first" THEN LockOrder(c)[1]
    ELSE IF stats.at[c] = "lock_second" THEN LockOrder(c)[2]
    ELSE "none"

\* The call that holds the mutex c is waiting for (0: the mutex is free, or c
\* waits for none).
Blocker(c) == IF Wanted(c) = "none" THEN 0 ELSE stats.held[Wanted(c)]

\* Following the holders from c, n + 1 calls in a row are blocked: with n the
\* number of calls, the chain runs in a circle.
RECURSIVE Stuck(_, _)
Stuck(c, n) ==
    IF Blocker(c) = 0 THEN FALSE
    ELSE IF n = 0 THEN TRUE
    ELSE Stuck(Blocker(c), n - 1)

C34_ConfigLoadedOnce ==
    /\ Cardinality(config.loaded) <= 1
    /\ config.cached.set <=> config.loaded # {}
    /\ config.loader # 0 => ~config.cached.set /\ config.at[config.loader] = "loading"
    /\ \A c \in ConfigCallers :
           /\ config.got[c] # NoResult =>
                  /\ config.cached.set
                  /\ config.got[c] = ConfigResult(config.cached.value)
           /\ config.at[c] = "returned" => config.got[c] # NoResult
           /\ config.at[c] = "blocked" => config.loader \notin {0, c} \/ config.cached.set

C34_Witness ==
    /\ config.cached = [set |-> TRUE, value |-> None]
    /\ config.file = "mijia_A"
    /\ config.loaded = {1}
    /\ config.at[2] = "returned"
    /\ config.got[1].error = "Mijia API not configured"
    /\ config.got[2].error = "Mijia API not configured"

\* C35: init_config never overwrites an existing config file: whenever its
\* fs::write has replaced the file, there was no file at the path.
C35_NeverOverwrites ==
    config.init.found \in {"none", "missing"}

\* The characters of text covered by range.
Covered(text, range) == SubSeq(text, range.location + 1, range.location + range.length)

\* C36: the CPU, upload and download ranges of update_status_bar are pairwise
\* disjoint and in that order, each lies within the full text, and with the
\* two one-character separators between them they cover the full text exactly:
\* each range holds one formatted value and no separator.
C36_RangesCoverText ==
    calc.op = "update_status_bar" =>
        LET text == calc.out.text
            cpu == calc.out.ranges.cpu
            up == calc.out.ranges.up
            down == calc.out.ranges.down
        IN  /\ cpu.location = 0
            /\ cpu.length > 0 /\ up.length > 0 /\ down.length > 0
            /\ cpu.location + cpu.length + 1 = up.location
            /\ up.location + up.length + 1 = down.location
            /\ down.location + down.length = Len(text)
            /\ text[cpu.location + cpu.length + 1] = ","
            /\ text[up.location + up.length + 1] = ","
            /\ Covered(text, cpu) = cpu_str(calc.in[1])
            /\ Covered(text, up) = format_speed(calc.in[2])
            /\ Covered(text, down) = format_speed(calc.in[3])
            /\ \A i \in DOMAIN text :
                   text[i] = "," <=> i \in {cpu.length + 1, up.location + up.length + 1}

C36_Witness ==
    /\ calc.op = "update_status_bar"
    /\ calc.in = <<995, 1023, 10 * 1024 * 1024>>
    /\ calc.out.text = <<"1", "0", "0", "%", ",", "1", "0", "2", "3", " ", "B", ",",
                         "1", "0", ".", "0", " ", "M", "/", "s">>
    /\ calc.out.ranges.down = NSRange(12, 8)

\* C37: get_network_color follows the documented bands, with 1 MB = 1024*1024
\* bytes: a rate below 5 MB/s gets the default color, a rate from 5 MB/s up to
\* and including 10 MB/s gets orange, a rate above 10 MB/s gets red.
C37_NetworkColorBands ==
    calc.op = "get_network_color" =>
        LET MB == 1024 * 1024
            rate == calc.in
        IN  /\ rate < 5 * MB => calc.out = "controlText"
            /\ (5 * MB <= rate /\ rate <= 10 * MB) => calc.out = "orange"
            /\ rate > 10 * MB => calc.out = "red"

C37_Witness ==
    /\ calc.op = "get_network_color"
    /\ calc.in = 10 * 1024 * 1024
    /\ calc.out = "orange"

====
